---------------------------- MODULE Spec2Model ----------------------------
(***************************************************************************)
(* A model of the service layer of the MTG commander deck generator:       *)
(*   - the rate-limited upstream fetch helpers (edhrecFetch, scryfallFetch *)
(*     and their RateLimiter),                                              *)
(*   - the EDHREC client's read-through caches and partner fallback,       *)
(*   - the pure parsers of provider responses (parseCard, parseCardlists,  *)
(*     mergeCardlists),                                                     *)
(*   - the Scryfall search query builder (searchCards),                    *)
(*   - the EDHREC client's list fetchers (fetchTopCommanders,              *)
(*     fetchPartnerPopularity) and the tagger client (loadTaggerData),     *)
(*   - pure functions applied to bounded arguments (SpecLib):              *)
(*     buildQueriesFromThemes, the textual export and the quantity-line    *)
(*     pattern, the combo display's groups, detectArchetypes,              *)
(*   - the collection database (bulkImport, updateQuantity, removeCard,   *)
(*     clearCollection, getCollectionNameSet),                             *)
(*   - the Scryfall client's card cache (prefetchBasicLands) and its       *)
(*     batched lookup (getCardsByNames),                                   *)
(*   - the customization handlers of the deck customizer: the banned and   *)
(*     must-include lists and the land sliders.                            *)
(* Each part has its own specification over the shared variables; the     *)
(* variables of the other parts stay at their initial values.              *)
(***************************************************************************)
EXTENDS Integers, Sequences, FiniteSets, TLC

VARIABLES
    now,              \* Date.now(), in milliseconds
    provider,         \* the provider module under consideration: "edhrec" or "scryfall"
    lastRequestTime,  \* rateLimiter.lastRequestTime of that module
    callers,          \* in-flight calls of edhrecFetch / scryfallFetch
    releases,         \* the start times of the last two requests the limiter released
    calls,            \* number of calls started so far
    rawCardLists,     \* response.container.json_dict.cardlists of a provider response
    cardlists,        \* what parseCardlists returned for it
    mergeArgs,        \* the two arguments of the last mergeCardlists call
    mergedLists,      \* what mergeCardlists returned
    parsePc,          \* "build", "parsed" or "merged"
    searchArgs,       \* the arguments of a searchCards call
    searchRequest,    \* the request searchCards sends: the query's terms, order, page
    searchResults,    \* the cards the server returns for it
    searchPc,         \* "call", "sent" or "returned"
    commanderCache,   \* the Map commanderCache: key -> [data, timestamp]
    comboCache,       \* the Map comboCache: slug -> [data, timestamp]
    heap,             \* the objects the cached data is made of
    tasks,            \* the calls of the EDHREC client's functions in progress
    requestsLeft,     \* number of requests the EDHREC client may still send
    topCommanderCache,       \* the Map topCommanderCache: key -> [data, timestamp]
    partnerPopularityCache,  \* the Map partnerPopularityCache: key -> [data, timestamp]
    taggerCached,     \* tagger client: `cached`, the loaded TaggerData or "null"
    fetchPromise,     \* tagger client: `fetchPromise`: "null", or the stage of the fetch in flight
    tagSets,          \* tagger client: `tagSets`: "null" or tag -> set of card names
    loaders,          \* the callers of loadTaggerData
    taggerRequests,   \* number of requests loadTaggerData has issued
    tagRepoUrl,       \* TAG_REPO_URL of the build ("" when not configured)
    libCall,          \* a call of a pure library function: its name and arguments
    libResult,        \* <<what that call returned>>, null before it returns
    dbCards,          \* the table db.cards of the collection: name -> row
    dbResult,         \* what the last read of the collection returned
    cardCache,        \* scryfall client: the Map cardCache, card name -> card
    landCalls,        \* the callers of prefetchBasicLands and getCardByName
    cardRequests,     \* number of requests the scryfall client has sent for cards
    batchCall,        \* a call of getCardsByNames in progress
    customization,    \* store: customization (banned and must-include cards, land sliders)
    importText        \* BannedCards: the text in the import box

netVars == <<now, provider, lastRequestTime, callers, releases, calls>>
parseVars == <<rawCardLists, cardlists, mergeArgs, mergedLists, parsePc>>

searchVars == <<searchArgs, searchRequest, searchResults, searchPc>>

listCaches == <<topCommanderCache, partnerPopularityCache>>

cacheVars == <<commanderCache, comboCache, heap, tasks, requestsLeft, listCaches>>

taggerVars == <<taggerCached, fetchPromise, tagSets, loaders, taggerRequests, tagRepoUrl>>

libVars == <<libCall, libResult>>

collectionVars == <<dbCards, dbResult>>

cardVars == <<cardCache, landCalls, cardRequests, batchCall>>

customVars == <<customization, importText>>

restVars == <<taggerVars, libVars, collectionVars, cardVars, customVars>>

vars == <<netVars, parseVars, searchVars, cacheVars, restVars>>

\* What the actions of one part leave alone.
notNet == <<parseVars, searchVars, cacheVars, restVars>>
notParse == <<netVars, searchVars, cacheVars, restVars>>
notSearch == <<netVars, parseVars, cacheVars, restVars>>
notClient == <<provider, lastRequestTime, callers, releases, calls, parseVars, searchVars,
               restVars>>
notCache == <<notClient, listCaches>>
notTagger == <<netVars, parseVars, searchVars, cacheVars, libVars, collectionVars, cardVars,
               customVars>>
notLib == <<netVars, parseVars, searchVars, cacheVars, taggerVars, collectionVars, cardVars,
            customVars>>
notCollection == <<netVars, parseVars, searchVars, cacheVars, taggerVars, libVars, cardVars,
                   customVars>>
notCards == <<netVars, parseVars, searchVars, cacheVars, taggerVars, libVars, collectionVars,
              customVars>>
notCustom == <<netVars, parseVars, searchVars, cacheVars, taggerVars, libVars, collectionVars,
               cardVars>>

\* The parts that are not under consideration, as they are at module load.
Loaders == {1, 2, 3}
LandCallers == {1, 2}

\* null is the empty tuple, and a value v that may be null is <<v>>.
null == <<>>

idleLoader == [pc |-> "idle", fetch |-> 0, result |-> null]
idleLandCall == [op |-> "none", pc |-> "idle", names |-> {}, result |-> "none"]
idleBatchCall == [pc |-> "idle", names |-> <<>>, uncachedNames |-> <<>>, i |-> 0,
                  result |-> <<>>, available |-> {}, retried |-> FALSE]

TaggerIdle ==
    /\ taggerCached = null
    /\ fetchPromise = "null"
    /\ tagSets = null
    /\ loaders = [l \in Loaders |-> idleLoader]
    /\ taggerRequests = 0

LibIdle == libCall = [fn |-> "none"] /\ libResult = null

CollectionIdle == dbCards = <<>> /\ dbResult = [op |-> "none"]

CardsIdle ==
    /\ cardCache = <<>>
    /\ landCalls = [c \in LandCallers |-> idleLandCall]
    /\ batchCall = idleBatchCall

\* The customization before the user touches it; edited names the handler
\* that updated it last.
idleCustomization ==
    [bannedCards |-> <<>>, mustIncludeCards |-> <<>>, deckFormat |-> 99, landCount |-> 37,
     nonBasicLandCount |-> 15, edited |-> "none"]

CustomIdle == customization = idleCustomization /\ importText = <<>>

RestIdle ==
    /\ TaggerIdle /\ tagRepoUrl = ""
    /\ LibIdle
    /\ CollectionIdle
    /\ CardsIdle /\ cardRequests = 0
    /\ CustomIdle

(***************************************************************************)
(* Bounds of the model.                                                    *)
(***************************************************************************)
StartTime   == 1000   \* Date.now() when the first call is made
TimeStep    == 50     \* granularity of the passage of time
MaxAttempts == 3      \* cap on the requests one call may send
MaxCalls    == 3      \* cap on the calls started in one behaviour
MaxCards    == 2      \* cap on the raw entries of one provider response
MaxPage     == 2      \* the result pages a search may ask for
MaxRequests == 5      \* cap on the requests of one behaviour of the partner fetchers
MaxFetches  == 2      \* cap on the requests of one behaviour of the single-page fetchers
MaxElapsed  == 1800000 \* how far the clock runs, in milliseconds
MaxLoads    == 2      \* cap on the requests loadTaggerData issues in one behaviour
MaxThemes   == 3      \* cap on the theme names of one buildQueriesFromThemes call
MaxEntries  == 2      \* cap on the cards of an exported collection
MaxCombos   == 2      \* cap on the combos handed to the combo display
MaxFindings == 3      \* cap on what the patterns find in one commander
MaxCardRequests == 3  \* cap on the requests for cards in one behaviour
MaxBatches  == 2      \* cap on the batches one getCardsByNames call needs
MaxLines    == 2      \* cap on the lines of a pasted banned list
MaxImport   == 2      \* cap on the cards of one bulkImport call
MaxQuantity == 2      \* cap on the quantity stored for one card

(***************************************************************************)
(* Program constants.                                                      *)
(***************************************************************************)
MIN_REQUEST_DELAY    == 100
EDHREC_RETRY_DELAY   == 2000
SCRYFALL_RETRY_DELAY == 1000
CACHE_TTL            == 5 * 60 * 1000
TOP_COMMANDER_CACHE_TTL == 30 * 60 * 1000

Providers == {"edhrec", "scryfall"}
Callers   == {1, 2}

\* What the server (or the network) answers to one request.
Responses == {"ok", "redirect", "429", "httpError", "networkError"}

retryDelay(p) == IF p = "edhrec" THEN EDHREC_RETRY_DELAY ELSE SCRYFALL_RETRY_DELAY

idleCaller == [pc |-> "idle", wakeAt |-> 0, sent |-> 0]

Last2(s) == IF Len(s) <= 2 THEN s ELSE SubSeq(s, Len(s) - 1, Len(s))

(***************************************************************************)
(* RateLimiter.throttle, up to its first suspension: the caller either    *)
(* sleeps for the rest of the delay or is released at once.  A release    *)
(* sets lastRequestTime and the request is sent.                           *)
(***************************************************************************)
released(c) ==
    /\ lastRequestTime' = now
    /\ releases' = Last2(Append(releases, now))
    /\ callers' = [callers EXCEPT ![c] =
            [pc |-> "fetching", wakeAt |-> 0, sent |-> callers[c].sent + 1]]

throttle(c) ==
    LET timeSinceLastRequest == now - lastRequestTime IN
    IF timeSinceLastRequest < MIN_REQUEST_DELAY
    THEN /\ callers' = [callers EXCEPT ![c] =
                [pc |-> "throttleWait",
                 wakeAt |-> now + (MIN_REQUEST_DELAY - timeSinceLastRequest),
                 sent |-> callers[c].sent]]
         /\ UNCHANGED <<lastRequestTime, releases>>
    ELSE released(c)

\* A caller starts edhrecFetch(endpoint) or scryfallFetch(endpoint).
Call(c) ==
    /\ callers[c].pc = "idle"
    /\ calls < MaxCalls
    /\ calls' = calls + 1
    /\ throttle(c)
    /\ UNCHANGED <<now, provider>>
    /\ UNCHANGED notNet

\* The throttle's timer fires: lastRequestTime = Date.now(), the request goes out.
ThrottleWake(c) ==
    /\ callers[c].pc = "throttleWait"
    /\ now >= callers[c].wakeAt
    /\ released(c)
    /\ UNCHANGED <<now, provider, calls>>
    /\ UNCHANGED notNet

\* The response arrives.  429 starts the backoff; any other failure throws;
\* an EDHREC body that carries a redirect throws too.
Respond(c, r) ==
    /\ callers[c].pc = "fetching"
    /\ r = "429" => callers[c].sent < MaxAttempts
    /\ r = "redirect" => provider = "edhrec"
    /\ callers' = [callers EXCEPT ![c] =
            CASE r = "429" ->
                    [@ EXCEPT !.pc = "backoff",
                              !.wakeAt = now + retryDelay(provider)]
              [] r = "ok" -> [@ EXCEPT !.pc = "ok"]
              [] OTHER -> [@ EXCEPT !.pc = "failed"]]
    /\ UNCHANGED <<now, provider, lastRequestTime, releases, calls>>
    /\ UNCHANGED notNet

\* After the backoff the helper calls itself again with the same endpoint.
BackoffWake(c) ==
    /\ callers[c].pc = "backoff"
    /\ now >= callers[c].wakeAt
    /\ throttle(c)
    /\ UNCHANGED <<now, provider, calls>>
    /\ UNCHANGED notNet

\* The call has returned or thrown; the caller is free to make another call.
Finish(c) ==
    /\ callers[c].pc \in {"ok", "failed"}
    /\ callers' = [callers EXCEPT ![c] = idleCaller]
    /\ UNCHANGED <<now, provider, lastRequestTime, releases, calls>>
    /\ UNCHANGED notNet

pendingWakes == {callers[c].wakeAt : c \in {d \in Callers :
                    callers[d].pc \in {"throttleWait", "backoff"}}}

\* Time passes: by one step while the throttle's window is open (afterwards the
\* throttle no longer reads the difference), or up to the deadline of a pending
\* timer.  Timers fire in deadline order: time does not pass a pending deadline.
Advance ==
    /\ \E t \in {now + TimeStep} \cup pendingWakes :
          /\ t > now
          /\ \A w \in pendingWakes : t <= w
          /\ t = now + TimeStep => now - lastRequestTime <= MIN_REQUEST_DELAY
          /\ now' = t
    /\ UNCHANGED <<provider, lastRequestTime, callers, releases, calls>>
    /\ UNCHANGED notNet

(***************************************************************************)
(* The parsers of the provider's card lists.                               *)
(***************************************************************************)
CategoryKeys == {"creatures", "instants", "sorceries", "artifacts", "enchantments",
                 "planeswalkers", "lands", "allNonLand"}

emptyCardlists == [k \in CategoryKeys |-> <<>>]

\* A raw entry whose potential_decks is 0 stands for a missing field as well:
\* "raw.potential_decks || 1" treats both alike.
inclusionPercent(raw) ==
    LET inclusionCount == raw.inclusion
        potentialDecks == IF raw.potential_decks = 0 THEN 1 ELSE raw.potential_decks
    IN  IF potentialDecks > 0
        THEN (inclusionCount * 100) \div potentialDecks
        ELSE 0

primaryTypeOf(tagLower) ==
    CASE tagLower = "creatures" -> "Creature"
      [] tagLower = "instants" -> "Instant"
      [] tagLower = "sorceries" -> "Sorcery"
      [] tagLower \in {"utilityartifacts", "manaartifacts"} -> "Artifact"
      [] tagLower = "enchantments" -> "Enchantment"
      [] tagLower = "planeswalkers" -> "Planeswalker"
      [] tagLower \in {"utilitylands", "lands"} -> "Land"
      [] OTHER -> "Unknown"

THEME_SYNERGY_TAGS == {"highsynergycards", "topcards", "gamechangers"}

parseCard(raw, tagHint) ==
    [name |-> raw.name,
     primary_type |-> primaryTypeOf(tagHint),
     inclusion |-> inclusionPercent(raw),
     num_decks |-> raw.num_decks,
     isThemeSynergyCard |-> tagHint \in THEME_SYNERGY_TAGS,
     isNewCard |-> tagHint = "newcards",
     isGameChanger |-> tagHint = "gamechangers"]

\* The categories a card of a list tagged `tag` is pushed to.
categoriesOfTag(tag) ==
    CASE tag = "creatures" -> {"creatures", "allNonLand"}
      [] tag = "instants" -> {"instants", "allNonLand"}
      [] tag = "sorceries" -> {"sorceries", "allNonLand"}
      [] tag \in {"utilityartifacts", "manaartifacts"} -> {"artifacts", "allNonLand"}
      [] tag = "enchantments" -> {"enchantments", "allNonLand"}
      [] tag = "planeswalkers" -> {"planeswalkers", "allNonLand"}
      [] tag \in {"utilitylands", "lands"} -> {"lands"}
      [] tag \in {"newcards", "highsynergycards", "topcards", "gamechangers"} -> {"allNonLand"}
      [] OTHER -> {}

\* Array.prototype.sort((a, b) => b[field] - a[field]): a stable sort, the
\* highest value first.
RECURSIVE insertDescending(_, _, _)
insertDescending(sorted, item, field) ==
    IF sorted = <<>> THEN <<item>>
    ELSE IF Head(sorted)[field] >= item[field]
         THEN <<Head(sorted)>> \o insertDescending(Tail(sorted), item, field)
         ELSE <<item>> \o sorted

RECURSIVE sortDescending(_, _)
sortDescending(list, field) ==
    IF list = <<>> THEN <<>>
    ELSE insertDescending(sortDescending(SubSeq(list, 1, Len(list) - 1), field),
                          list[Len(list)], field)

\* The comparator with its operands exchanged: lowest inclusion first.
RECURSIVE sortByInclusionAscending(_)
sortByInclusionAscending(list) ==
    LET RECURSIVE insertAscending(_, _)
        insertAscending(sorted, card) ==
            IF sorted = <<>> THEN <<card>>
            ELSE IF Head(sorted).inclusion <= card.inclusion
                 THEN <<Head(sorted)>> \o insertAscending(Tail(sorted), card)
                 ELSE <<card>> \o sorted
    IN  IF list = <<>> THEN <<>>
        ELSE insertAscending(sortByInclusionAscending(SubSeq(list, 1, Len(list) - 1)),
                             list[Len(list)])

\* cardlists[key].sort((a, b) => b.inclusion - a.inclusion)
sortByInclusion(list) == sortDescending(list, "inclusion")

\* One iteration of the inner loop of parseCardlists: acc is the pair of
\* seenCards and the lists built so far.
parseEntry(acc, tag, rawCard) ==
    LET seen == rawCard.name \in DOMAIN acc.seenCards
        percent == inclusionPercent(rawCard)
    IN  IF seen /\ acc.seenCards[rawCard.name].inclusion >= percent
        THEN acc
        ELSE LET card == parseCard(rawCard, tag)
             IN [seenCards |-> [n \in DOMAIN acc.seenCards \cup {card.name} |->
                                   IF n = card.name THEN card ELSE acc.seenCards[n]],
                 lists |-> [k \in CategoryKeys |->
                               IF k \in categoriesOfTag(tag)
                               THEN Append(acc.lists[k], card)
                               ELSE acc.lists[k]]]

RECURSIVE parseList(_, _, _)
parseList(acc, tag, cardviews) ==
    IF cardviews = <<>> THEN acc
    ELSE parseList(parseEntry(acc, tag, Head(cardviews)), tag, Tail(cardviews))

RECURSIVE parseLists(_, _)
parseLists(acc, lists) ==
    IF lists = <<>> THEN acc
    ELSE parseLists(parseList(acc, Head(lists).tag, Head(lists).cardviews), Tail(lists))

parseCardlists(rawLists) ==
    LET built == parseLists([seenCards |-> [n \in {} |-> n], lists |-> emptyCardlists], rawLists).lists
    IN  [k \in CategoryKeys |-> sortByInclusion(built[k])]

\* mergeCategory: the first entry of a name stays unless a later one has a
\* strictly higher inclusion; the Map keeps the position of the first insertion.
RECURSIVE mergeInto(_, _)
mergeInto(cardMap, cards) ==
    IF cards = <<>> THEN cardMap
    ELSE LET card == Head(cards)
             at == {i \in 1..Len(cardMap) : cardMap[i].name = card.name}
         IN  IF at = {}
             THEN mergeInto(Append(cardMap, card), Tail(cards))
             ELSE LET i == CHOOSE j \in at : TRUE
                  IN  IF card.inclusion > cardMap[i].inclusion
                      THEN mergeInto([cardMap EXCEPT ![i] = card], Tail(cards))
                      ELSE mergeInto(cardMap, Tail(cards))

mergeCategory(list1, list2) == sortByInclusion(mergeInto(<<>>, list1 \o list2))

mergeCardlists(lists1, lists2) ==
    [k \in CategoryKeys |-> mergeCategory(lists1[k], lists2[k])]

(***************************************************************************)
(* The parsers applied to bounded provider responses.                      *)
(***************************************************************************)
CardNames == {"A", "B"}
Tags == {"creatures", "topcards", "lands"}
\* inclusion (a deck count), potential_decks (0: zero or missing), num_decks
RawCards == [name : CardNames, inclusion : {1, 2}, potential_decks : {0, 2},
             num_decks : {1, 2}]

rawCount(lists) ==
    LET RECURSIVE count(_)
        count(ls) == IF ls = <<>> THEN 0 ELSE Len(Head(ls).cardviews) + count(Tail(ls))
    IN  count(lists)

\* The response grows by one entry, in the last list or in a new list.
AddCard(tag, raw) ==
    /\ parsePc = "build"
    /\ rawCount(rawCardLists) < MaxCards
    /\ rawCardLists' =
          IF rawCardLists # <<>> /\ rawCardLists[Len(rawCardLists)].tag = tag
          THEN [rawCardLists EXCEPT ![Len(rawCardLists)].cardviews = Append(@, raw)]
          ELSE Append(rawCardLists, [tag |-> tag, cardviews |-> <<raw>>])
    /\ UNCHANGED <<cardlists, mergeArgs, mergedLists, parsePc>>
    /\ UNCHANGED notParse

Parse ==
    /\ parsePc = "build"
    /\ cardlists' = parseCardlists(rawCardLists)
    /\ parsePc' = "parsed"
    /\ UNCHANGED <<rawCardLists, mergeArgs, mergedLists>>
    /\ UNCHANGED notParse

\* The card lists of a second commander, for the partner fallback's merge.
SecondSources ==
    { <<[tag |-> "creatures",
         cardviews |-> <<[name |-> "A", inclusion |-> 1, potential_decks |-> 2, num_decks |-> 2]>>]>>,
      <<[tag |-> "creatures",
         cardviews |-> <<[name |-> "B", inclusion |-> 2, potential_decks |-> 2, num_decks |-> 1],
                         [name |-> "A", inclusion |-> 1, potential_decks |-> 2, num_decks |-> 1]>>],
        [tag |-> "lands",
         cardviews |-> <<[name |-> "B", inclusion |-> 1, potential_decks |-> 2, num_decks |-> 2]>>]>> }

Merge(second, first) ==
    /\ parsePc = "parsed"
    /\ mergeArgs' = IF first THEN <<cardlists, parseCardlists(second)>>
                             ELSE <<parseCardlists(second), cardlists>>
    /\ mergedLists' = mergeCardlists(mergeArgs'[1], mergeArgs'[2])
    /\ parsePc' = "merged"
    /\ UNCHANGED <<rawCardLists, cardlists>>
    /\ UNCHANGED notParse

ParseIdle ==
    /\ rawCardLists = <<>>
    /\ cardlists = emptyCardlists
    /\ mergeArgs = <<emptyCardlists, emptyCardlists>>
    /\ mergedLists = emptyCardlists
    /\ parsePc = "build"

ParseNext ==
    \/ \E tag \in Tags, raw \in RawCards : AddCard(tag, raw)
    \/ Parse
    \/ \E second \in SecondSources, first \in BOOLEAN : Merge(second, first)


(***************************************************************************)
(* searchCards: the query sent to the card database.  The query is the     *)
(* sequence of its terms; the server returns the cards that match every    *)
(* term.                                                                   *)
(***************************************************************************)
Colors == {"W", "U", "B", "R", "G"}
Queries == {"t:creature", "o:\"create\" OR o:\"token\""}
Orders == {"edhrec", "cmc", "name"}

\* The cards of the database: colour identity, whether the card matches the
\* caller's query text, and whether it is legal in the format.
Cards == [color_identity : SUBSET Colors, matches : Queries, legal : BOOLEAN]

\* `id<=${colorIdentity.join('')}`, or nothing for an empty colour identity.
colorFilter(colorIdentity) ==
    IF Cardinality(colorIdentity) > 0
    THEN <<[op |-> "id<=", arg |-> colorIdentity]>>
    ELSE <<>>

\* `${colorFilter} (${query}) f:commander`, trimmed.
fullQuery(query, colorIdentity) ==
    colorFilter(colorIdentity)
        \o <<[op |-> "group", arg |-> query], [op |-> "f:", arg |-> "commander"]>>

\* The server's reading of one term.
termMatches(term, card) ==
    CASE term.op = "id<=" -> card.color_identity \subseteq term.arg
      [] term.op = "group" -> card.matches = term.arg
      [] term.op = "f:" -> card.legal

searchCards ==
    /\ searchPc = "call"
    /\ searchRequest' = [q |-> fullQuery(searchArgs.query, searchArgs.colorIdentity),
                         order |-> searchArgs.order,
                         page |-> searchArgs.page]
    /\ searchPc' = "sent"
    /\ UNCHANGED <<searchArgs, searchResults>>
    /\ UNCHANGED notSearch

\* The server answers with the cards that match every term of the query.
SearchResponse ==
    /\ searchPc = "sent"
    /\ searchResults' = {card \in Cards :
            \A i \in 1..Len(searchRequest.q) : termMatches(searchRequest.q[i], card)}
    /\ searchPc' = "returned"
    /\ UNCHANGED <<searchArgs, searchRequest>>
    /\ UNCHANGED notSearch

SearchIdle ==
    /\ searchArgs = [query |-> "t:creature", colorIdentity |-> {}, order |-> "edhrec", page |-> 1]
    /\ searchRequest = [q |-> <<>>, order |-> "edhrec", page |-> 1]
    /\ searchResults = {}
    /\ searchPc = "call"

SearchNext == searchCards \/ SearchResponse


(***************************************************************************)
(* The EDHREC client's read-through caches.  An object the client creates  *)
(* (a themes array with its theme objects, a stats object, a cardlists     *)
(* object, a similarCommanders array) lives on the heap and is referred to *)
(* by its position there, so that two holders of one object see each       *)
(* other's writes.  The objects one parse creates share one heap cell.     *)
(***************************************************************************)
Commanders == {"Tymna the Weaver", "Kraum, Ludevic's Opus"}

\* Lower-cases, drops apostrophes and commas, turns spaces into hyphens; a
\* string that is already a slug comes back unchanged.
formatCommanderNameForUrl(name) ==
    CASE name = "Tymna the Weaver" -> "tymna-the-weaver"
      [] name = "Kraum, Ludevic's Opus" -> "kraum-ludevics-opus"
      [] OTHER -> name

getBudgetSuffix(budgetOption) ==
    IF budgetOption = "budget" THEN "/budget"
    ELSE IF budgetOption = "expensive" THEN "/expensive"
    ELSE ""

BRACKET_SLUGS(level) ==
    CASE level = 1 -> "exhibition"
      [] level = 2 -> "core"
      [] level = 3 -> "upgraded"
      [] level = 4 -> "optimized"
      [] level = 5 -> "cedh"

\* The bracket level 0 stands for 'all' and for a missing argument.
getBracketSuffix(bracketLevel) ==
    IF bracketLevel = 0 THEN "" ELSE "/" \o BRACKET_SLUGS(bracketLevel)

\* The two orderings exchanged: commander2 first.
getPartnerSlugsSwapped(commander1, commander2) ==
    LET slug1 == formatCommanderNameForUrl(commander1)
        slug2 == formatCommanderNameForUrl(commander2)
    IN  <<slug2 \o "-" \o slug1, slug1 \o "-" \o slug2>>

\* Primary: commander1 first; secondary: commander2 first.
getPartnerSlugs(commander1, commander2) ==
    LET slug1 == formatCommanderNameForUrl(commander1)
        slug2 == formatCommanderNameForUrl(commander2)
    IN  <<slug1 \o "-" \o slug2, slug2 \o "-" \o slug1>>

\* Bodies the provider may answer with.  A numeric field that is 0 stands
\* for a missing field as well ("response.x || 0").
firstPage ==
    [taglinks |-> <<[value |-> "Tokens", slug |-> "tokens", count |-> 1],
                    [value |-> "Voltron", slug |-> "voltron", count |-> 3]>>,
     avg_price |-> 400, num_decks_avg |-> 10, deck_size |-> 80,
     mana_curve |-> [c \in {1, 2} |-> IF c = 1 THEN 10 ELSE 0],
     creature |-> 30, instant |-> 10, sorcery |-> 8, artifact |-> 10,
     enchantment |-> 6, land |-> 36, planeswalker |-> 0, battle |-> 0,
     basic |-> 20, nonbasic |-> 16,
     cardlists |-> <<[tag |-> "creatures",
                      cardviews |-> <<[name |-> "A", inclusion |-> 1,
                                       potential_decks |-> 2, num_decks |-> 1]>>]>>,
     similar |-> <<"Thrasios, Triton Hero">>, redirect |-> ""]

secondPage ==
    [taglinks |-> <<[value |-> "Tokens", slug |-> "tokens", count |-> 6]>>,
     avg_price |-> 0, num_decks_avg |-> 4, deck_size |-> 0,
     mana_curve |-> [c \in {1, 3} |-> 6],
     creature |-> 20, instant |-> 12, sorcery |-> 8, artifact |-> 12,
     enchantment |-> 6, land |-> 38, planeswalker |-> 2, battle |-> 0,
     basic |-> 22, nonbasic |-> 16,
     cardlists |-> <<[tag |-> "creatures",
                      cardviews |-> <<[name |-> "B", inclusion |-> 1,
                                       potential_decks |-> 2, num_decks |-> 2],
                                      [name |-> "A", inclusion |-> 2,
                                       potential_decks |-> 2, num_decks |-> 2]>>]>>,
     similar |-> <<>>, redirect |-> ""]

\* A page without theme links.
pageWithoutThemes == [secondPage EXCEPT !.taglinks = <<>>]

RawResponses == {firstPage, secondPage}

emptyBody == [taglinks |-> <<>>, avg_price |-> 0, num_decks_avg |-> 0, deck_size |-> 0,
              mana_curve |-> <<>>, creature |-> 0, instant |-> 0, sorcery |-> 0,
              artifact |-> 0, enchantment |-> 0, land |-> 0, planeswalker |-> 0,
              battle |-> 0, basic |-> 0, nonbasic |-> 0, cardlists |-> <<>>,
              similar |-> <<>>, redirect |-> ""]

\* { redirect: "..." }: what the provider answers, with a 2xx status, for the
\* wrong ordering of a partner pair.
redirectPage == [emptyBody EXCEPT !.redirect = "/commanders/kraum-ludevics-opus-tymna-the-weaver"]

\* The answers to a request of edhrecFetch: response.ok with the parsed JSON
\* body, or an error status.
Outcomes == {[status |-> "ok", body |-> b] : b \in RawResponses \cup {redirectPage}}
            \cup {[status |-> "error", body |-> emptyBody]}

\* edhrecFetch after the answer: it throws for an error status and for a
\* body that carries a redirect field; otherwise it returns the body.
edhrecFetchReturnsRedirect(response) == response.status # "ok"

edhrecFetchThrows(response) ==
    response.status # "ok" \/ response.body.redirect # ""

\* What the call saw of its last request.
answerOf(response) ==
    IF response.status # "ok" THEN "error"
    ELSE IF response.body.redirect # "" THEN "redirect"
    ELSE "data"

parseManaCurve(rawCurve) ==
    [cmc \in {c \in DOMAIN rawCurve : rawCurve[c] > 0} |-> rawCurve[cmc]]

\* The themes of parseEdhrecResponse.  The counts used make count / total *
\* 100 a whole number.
popularityOf(count, total) == IF total > 0 THEN (count * 100) \div total ELSE 0

RECURSIVE sumOfCounts(_)
sumOfCounts(themes) ==
    IF themes = <<>> THEN 0 ELSE Head(themes).count + sumOfCounts(Tail(themes))

parseThemes(rawTaglinks, cacheKey) ==
    LET themes == [i \in 1..Len(rawTaglinks) |->
                      [name |-> rawTaglinks[i].value,
                       slug |-> rawTaglinks[i].slug,
                       count |-> rawTaglinks[i].count,
                       url |-> "/themes/" \o rawTaglinks[i].slug \o "/" \o cacheKey,
                       popularityPercent |-> 0]]
        totalThemeDecks == sumOfCounts(themes)
    IN  sortDescending([i \in 1..Len(themes) |->
                           [themes[i] EXCEPT !.popularityPercent =
                               popularityOf(themes[i].count, totalThemeDecks)]],
                       "count")

parseStats(response) ==
    [avgPrice |-> response.avg_price,
     numDecks |-> response.num_decks_avg,
     deckSize |-> IF response.deck_size = 0 THEN 81 ELSE response.deck_size,
     manaCurve |-> parseManaCurve(response.mana_curve),
     typeDistribution |-> [creature |-> response.creature, instant |-> response.instant,
                           sorcery |-> response.sorcery, artifact |-> response.artifact,
                           enchantment |-> response.enchantment, land |-> response.land,
                           planeswalker |-> response.planeswalker,
                           battle |-> response.battle],
     landDistribution |-> [basic |-> response.basic, nonbasic |-> response.nonbasic,
                           total |-> response.land]]

noStats == parseStats(emptyBody)

\* The objects parseEdhrecResponse creates.
parseEdhrecResponse(response, cacheKey) ==
    [themes |-> parseThemes(response.taglinks, cacheKey),
     stats |-> parseStats(response),
     cardlists |-> parseCardlists(response.cardlists),
     similarCommanders |-> response.similar]

\* The objects fetchCommanderThemeData creates from a theme page.
parseThemePage(response) ==
    [themes |-> <<>>,
     stats |-> parseStats(response),
     cardlists |-> parseCardlists(response.cardlists),
     similarCommanders |-> <<>>]

\* An EDHRECCommanderData object: its own identity and the objects it holds.
noData == [id |-> 0, themes |-> 0, stats |-> 0, cardlists |-> 0, similarCommanders |-> 0]

themesOf(h, data) == IF data.themes = 0 THEN <<>> ELSE h[data.themes].themes
statsOf(h, data) == IF data.stats = 0 THEN noStats ELSE h[data.stats].stats
cardlistsOf(h, data) ==
    IF data.cardlists = 0 THEN emptyCardlists ELSE h[data.cardlists].cardlists

\* Map.prototype.set
mapSet(map, key, value) ==
    [k \in DOMAIN map \cup {key} |-> IF k = key THEN value ELSE map[k]]

\* "cached && Date.now() - cached.timestamp < CACHE_TTL"
cacheHitInclusive(cache, key) ==
    key \in DOMAIN cache /\ now - cache[key].timestamp <= CACHE_TTL

cacheHit(cache, key) ==
    key \in DOMAIN cache /\ now - cache[key].timestamp < CACHE_TTL

\* The data object of a parsed page, created and written to the cache:
\* mem is the pair of the heap and the commander cache.
cacheParsed(mem, cell, cacheKey) ==
    LET g == Len(mem.heap) + 1
        data == [id |-> g, themes |-> g, stats |-> g, cardlists |-> g,
                 similarCommanders |-> g]
    IN  [heap |-> Append(mem.heap, cell),
         cache |-> mapSet(mem.cache, cacheKey, [data |-> data, timestamp |-> now]),
         data |-> data]

(***************************************************************************)
(* Calls of the client's functions.  A call runs from one await to the     *)
(* next in one step; the only awaits are those of edhrecFetch, so a call   *)
(* is either at a request in flight or has returned.                       *)
(***************************************************************************)
TaskIds == {1, 2}

\* A call of fetchCommanderData: st is "cached" (answered from the cache),
\* "inflight" (request sent), "ok" (parsed and cached) or "failed".
noSub == [st |-> "none", key |-> "", endpoint |-> "", data |-> noData]

\* kind: what the call returned ("data", "themes", "combos") or "threw".
idleTask == [op |-> "none", pc |-> "idle", c1 |-> "", c2 |-> "", theme |-> "",
             budget |-> "any", bracket |-> 0, sub |-> <<noSub, noSub>>,
             kind |-> "none", data |-> noData, list |-> <<>>, answer |-> "none",
             colors |-> <<>>]

mem == [heap |-> heap, cache |-> commanderCache]

inflight(sub) == IF sub.st = "inflight" THEN 1 ELSE 0

\* fetchCommanderData without the look into the cache.
fetchCommanderDataStartUncached(cache, commanderName, budgetOption, bracketLevel) ==
    LET formattedName == formatCommanderNameForUrl(commanderName)
        bracketSuffix == getBracketSuffix(bracketLevel)
        budgetSuffix == getBudgetSuffix(budgetOption)
        cacheKey == formattedName \o bracketSuffix \o budgetSuffix
    IN  [st |-> "inflight", key |-> cacheKey,
         endpoint |-> "/pages/commanders/" \o formattedName \o bracketSuffix
                         \o budgetSuffix \o ".json",
         data |-> noData]

\* fetchCommanderData up to its first await: a fresh entry is returned, else
\* the request is sent.
fetchCommanderDataStart(cache, commanderName, budgetOption, bracketLevel) ==
    LET formattedName == formatCommanderNameForUrl(commanderName)
        bracketSuffix == getBracketSuffix(bracketLevel)
        budgetSuffix == getBudgetSuffix(budgetOption)
        cacheKey == formattedName \o bracketSuffix \o budgetSuffix
    IN  IF cacheHit(cache, cacheKey)
        THEN [st |-> "cached", key |-> cacheKey, endpoint |-> "",
              data |-> cache[cacheKey].data]
        ELSE [st |-> "inflight", key |-> cacheKey,
              endpoint |-> "/pages/commanders/" \o formattedName \o bracketSuffix
                              \o budgetSuffix \o ".json",
              data |-> noData]

\* fetchCommanderData after the await: parseEdhrecResponse, or the exception.
fetchCommanderDataEnd(m, sub, outcome) ==
    IF ~edhrecFetchThrows(outcome)
    THEN LET p == cacheParsed(m, parseEdhrecResponse(outcome.body, sub.key), sub.key)
         IN  [heap |-> p.heap, cache |-> p.cache,
              sub |-> [sub EXCEPT !.st = "ok", !.data = p.data]]
    ELSE [heap |-> m.heap, cache |-> m.cache, sub |-> [sub EXCEPT !.st = "failed"]]

fetchCommanderData(t, commanderName, budgetOption, bracketLevel) ==
    /\ tasks[t].pc = "idle"
    /\ LET sub == fetchCommanderDataStart(commanderCache, commanderName,
                                          budgetOption, bracketLevel)
       IN  /\ requestsLeft >= inflight(sub)
           /\ requestsLeft' = requestsLeft - inflight(sub)
           /\ tasks' = [tasks EXCEPT ![t] =
                  [idleTask EXCEPT !.op = "fetchCommanderData", !.c1 = commanderName,
                                   !.budget = budgetOption, !.bracket = bracketLevel,
                                   !.sub = <<sub, noSub>>,
                                   !.pc = IF sub.st = "cached" THEN "done" ELSE "fetching",
                                   !.kind = IF sub.st = "cached" THEN "data" ELSE "none",
                                   !.data = sub.data]]
    /\ UNCHANGED <<now, commanderCache, comboCache, heap>>
    /\ UNCHANGED notCache

fetchCommanderDataResponse(t, outcome) ==
    /\ tasks[t].pc = "fetching"
    /\ tasks[t].op = "fetchCommanderData"
    /\ LET end == fetchCommanderDataEnd(mem, tasks[t].sub[1], outcome)
       IN  /\ heap' = end.heap
           /\ commanderCache' = end.cache
           /\ tasks' = [tasks EXCEPT ![t].sub[1] = end.sub,
                                     ![t].pc = "done",
                                     ![t].kind = IF end.sub.st = "ok" THEN "data" ELSE "threw",
                                     ![t].data = end.sub.data,
                                     ![t].answer = answerOf(outcome)]
    /\ UNCHANGED <<now, comboCache, requestsLeft>>
    /\ UNCHANGED notCache

fetchCommanderThemeData(t, commanderName, themeSlug, budgetOption, bracketLevel) ==
    /\ tasks[t].pc = "idle"
    /\ LET formattedName == formatCommanderNameForUrl(commanderName)
           bracketSuffix == getBracketSuffix(bracketLevel)
           budgetSuffix == getBudgetSuffix(budgetOption)
           cacheKey == formattedName \o bracketSuffix \o "/" \o themeSlug \o budgetSuffix
           hit == cacheHit(commanderCache, cacheKey)
           sub == IF hit
                  THEN [st |-> "cached", key |-> cacheKey, endpoint |-> "",
                        data |-> commanderCache[cacheKey].data]
                  ELSE [st |-> "inflight", key |-> cacheKey,
                        endpoint |-> "/pages/commanders/" \o formattedName \o bracketSuffix
                                        \o "/" \o themeSlug \o budgetSuffix \o ".json",
                        data |-> noData]
       IN  /\ requestsLeft >= inflight(sub)
           /\ requestsLeft' = requestsLeft - inflight(sub)
           /\ tasks' = [tasks EXCEPT ![t] =
                  [idleTask EXCEPT !.op = "fetchCommanderThemeData", !.c1 = commanderName,
                                   !.theme = themeSlug,
                                   !.budget = budgetOption, !.bracket = bracketLevel,
                                   !.sub = <<sub, noSub>>,
                                   !.pc = IF hit THEN "done" ELSE "fetching",
                                   !.kind = IF hit THEN "data" ELSE "none",
                                   !.data = sub.data]]
    /\ UNCHANGED <<now, commanderCache, comboCache, heap>>
    /\ UNCHANGED notCache

fetchCommanderThemeDataResponse(t, outcome) ==
    /\ tasks[t].pc = "fetching"
    /\ tasks[t].op = "fetchCommanderThemeData"
    /\ IF ~edhrecFetchThrows(outcome)
       THEN LET p == cacheParsed(mem, parseThemePage(outcome.body), tasks[t].sub[1].key)
            IN  /\ heap' = p.heap
                /\ commanderCache' = p.cache
                /\ tasks' = [tasks EXCEPT ![t].sub[1].st = "ok",
                                          ![t].sub[1].data = p.data,
                                          ![t].pc = "done",
                                          ![t].kind = "data",
                                          ![t].data = p.data,
                                          ![t].answer = answerOf(outcome)]
       ELSE /\ tasks' = [tasks EXCEPT ![t].sub[1].st = "failed",
                                      ![t].pc = "done",
                                      ![t].kind = "threw",
                                      ![t].answer = answerOf(outcome)]
            /\ UNCHANGED <<heap, commanderCache>>
    /\ UNCHANGED <<now, comboCache, requestsLeft>>
    /\ UNCHANGED notCache

\* response.container.json_dict.cardlists of a combos page; a count of 0
\* stands for a missing count.
rawComboEntry(comboId, count) ==
    [cardviews |-> <<[name |-> "A", id |-> "id-a"], [name |-> "B", id |-> "id-b"]>>,
     combo |-> [comboId |-> comboId, count |-> count, results |-> <<"Infinite mana">>,
                nonCardPrerequisiteCount |-> 0, rank |-> 0, bracket |-> ""]]

RawComboResponses ==
    { <<rawComboEntry("1-2", 1), rawComboEntry("3-4", 5)>>,
      <<rawComboEntry("5-6", 0)>> }

parseCombos(rawCombos) ==
    sortDescending([i \in 1..Len(rawCombos) |->
                       [comboId |-> rawCombos[i].combo.comboId,
                        cards |-> rawCombos[i].cardviews,
                        results |-> rawCombos[i].combo.results,
                        deckCount |-> rawCombos[i].combo.count,
                        rank |-> rawCombos[i].combo.rank,
                        bracket |-> IF rawCombos[i].combo.bracket = "" THEN "unknown"
                                    ELSE rawCombos[i].combo.bracket,
                        prereqCount |-> rawCombos[i].combo.nonCardPrerequisiteCount]],
                   "deckCount")

fetchCommanderCombos(t, commanderName) ==
    /\ tasks[t].pc = "idle"
    /\ LET slug == formatCommanderNameForUrl(commanderName)
           hit == cacheHit(comboCache, slug)
       IN  /\ ~hit => requestsLeft >= 1
           /\ requestsLeft' = IF hit THEN requestsLeft ELSE requestsLeft - 1
           /\ tasks' = [tasks EXCEPT ![t] =
                  [idleTask EXCEPT !.op = "fetchCommanderCombos", !.c1 = commanderName,
                                   !.sub = <<[st |-> IF hit THEN "cached" ELSE "inflight",
                                              key |-> slug,
                                              endpoint |-> IF hit THEN ""
                                                           ELSE "/pages/combos/" \o slug \o ".json",
                                              data |-> noData], noSub>>,
                                   !.pc = IF hit THEN "done" ELSE "fetching",
                                   !.kind = IF hit THEN "combos" ELSE "none",
                                   !.list = IF hit THEN comboCache[slug].data ELSE <<>>]]
    /\ UNCHANGED <<now, commanderCache, comboCache, heap>>
    /\ UNCHANGED notCache

\* ok: the request succeeded with rawCombos as its body; otherwise the
\* exception is caught and [] returned.
fetchCommanderCombosResponse(t, ok, rawCombos) ==
    /\ tasks[t].pc = "fetching"
    /\ tasks[t].op = "fetchCommanderCombos"
    /\ IF ok
       THEN LET combos == parseCombos(rawCombos)
            IN  /\ comboCache' = mapSet(comboCache, tasks[t].sub[1].key,
                                        [data |-> combos, timestamp |-> now])
                /\ tasks' = [tasks EXCEPT ![t].sub[1].st = "ok",
                                          ![t].pc = "done",
                                          ![t].kind = "combos",
                                          ![t].list = combos,
                                          ![t].answer = "data"]
       ELSE /\ tasks' = [tasks EXCEPT ![t].sub[1].st = "failed",
                                      ![t].pc = "done",
                                      ![t].kind = "combos",
                                      ![t].list = <<>>,
                                      ![t].answer = "error"]
            /\ UNCHANGED comboCache
    /\ UNCHANGED <<now, commanderCache, heap, requestsLeft>>
    /\ UNCHANGED notCache

(***************************************************************************)
(* The partner fetchers.                                                   *)
(***************************************************************************)
hasData(sub) == sub.st \in {"cached", "ok"}

\* The stats object of the merged data: the one of the first commander.
mergedStatsOfSecond(data1, data2) == data2.stats

mergedStats(data1, data2) == data1.stats

\* fetchPartnerCommanderData after Promise.all: both results are merged and
\* the merge is cached under slugA, or the one result is returned, or the
\* call throws.
mergeIndividual(task, m) ==
    LET data1 == task.sub[1].data
        data2 == task.sub[2].data
    IN  IF hasData(task.sub[1]) /\ hasData(task.sub[2])
        THEN LET g == Len(m.heap) + 1
                 mergedData == [id |-> g,
                                themes |-> data1.themes,
                                stats |-> mergedStats(data1, data2),
                                cardlists |-> g,
                                similarCommanders |-> data1.similarCommanders]
                 cell == [themes |-> <<>>, stats |-> noStats,
                          cardlists |-> mergeCardlists(cardlistsOf(m.heap, data1),
                                                       cardlistsOf(m.heap, data2)),
                          similarCommanders |-> <<>>]
                 slugA == getPartnerSlugs(task.c1, task.c2)[1]
             IN  [heap |-> Append(m.heap, cell),
                  cache |-> mapSet(m.cache, slugA, [data |-> mergedData, timestamp |-> now]),
                  task |-> [task EXCEPT !.pc = "done", !.kind = "data", !.data = mergedData]]
        ELSE [heap |-> m.heap, cache |-> m.cache,
              task |-> IF hasData(task.sub[1])
                       THEN [task EXCEPT !.pc = "done", !.kind = "data", !.data = data1]
                       ELSE IF hasData(task.sub[2])
                       THEN [task EXCEPT !.pc = "done", !.kind = "data", !.data = data2]
                       ELSE [task EXCEPT !.pc = "done", !.kind = "threw"]]

fetchPartnerCommanderData(t, commander1, commander2, budgetOption, bracketLevel) ==
    /\ tasks[t].pc = "idle"
    /\ LET slugs == getPartnerSlugs(commander1, commander2)
           suffix == getBracketSuffix(bracketLevel) \o getBudgetSuffix(budgetOption)
           hits == {i \in {1, 2} : cacheHit(commanderCache, slugs[i] \o suffix)}
           task == [idleTask EXCEPT !.op = "fetchPartnerCommanderData",
                                    !.c1 = commander1, !.c2 = commander2,
                                    !.budget = budgetOption, !.bracket = bracketLevel]
       IN  IF hits # {}
           THEN LET cacheKey == slugs[IF 1 \in hits THEN 1 ELSE 2] \o suffix
                    cached == commanderCache[cacheKey]
                IN  /\ tasks' = [tasks EXCEPT ![t] =
                           [task EXCEPT !.pc = "done", !.kind = "data", !.data = cached.data,
                                        !.sub[1] = [st |-> "cached", key |-> cacheKey,
                                                    endpoint |-> "", data |-> cached.data]]]
                    /\ UNCHANGED requestsLeft
           ELSE /\ requestsLeft >= 1
                /\ requestsLeft' = requestsLeft - 1
                /\ tasks' = [tasks EXCEPT ![t] =
                       [task EXCEPT !.pc = "slugA",
                                    !.sub[1] = [st |-> "inflight", key |-> slugs[1] \o suffix,
                                                endpoint |-> "/pages/commanders/" \o slugs[1]
                                                                \o suffix \o ".json",
                                                data |-> noData]]]
    /\ UNCHANGED <<now, commanderCache, comboCache, heap>>
    /\ UNCHANGED notCache

\* The answer to the request for a combined page.
fetchPartnerCommanderDataSlugResponse(t, outcome) ==
    /\ tasks[t].op = "fetchPartnerCommanderData"
    /\ tasks[t].pc \in {"slugA", "slugB"}
    /\ LET task == [tasks[t] EXCEPT !.answer = answerOf(outcome)]
           slugs == getPartnerSlugs(task.c1, task.c2)
           suffix == getBracketSuffix(task.bracket) \o getBudgetSuffix(task.budget)
       IN  IF ~edhrecFetchThrows(outcome)
           THEN LET p == cacheParsed(mem, parseEdhrecResponse(outcome.body, task.sub[1].key),
                                     task.sub[1].key)
                IN  /\ heap' = p.heap
                    /\ commanderCache' = p.cache
                    /\ tasks' = [tasks EXCEPT ![t] =
                           [task EXCEPT !.pc = "done", !.kind = "data", !.data = p.data,
                                        !.sub[1].st = "ok", !.sub[1].data = p.data]]
                    /\ UNCHANGED requestsLeft
           ELSE IF task.pc = "slugA"
           THEN /\ requestsLeft >= 1
                /\ requestsLeft' = requestsLeft - 1
                /\ tasks' = [tasks EXCEPT ![t] =
                       [task EXCEPT !.pc = "slugB",
                                    !.sub[1] = [st |-> "inflight", key |-> slugs[2] \o suffix,
                                                endpoint |-> "/pages/commanders/" \o slugs[2]
                                                                \o suffix \o ".json",
                                                data |-> noData]]]
                /\ UNCHANGED <<heap, commanderCache>>
           ELSE LET sub1 == fetchCommanderDataStart(commanderCache, task.c1,
                                                    task.budget, task.bracket)
                    sub2 == fetchCommanderDataStart(commanderCache, task.c2,
                                                    task.budget, task.bracket)
                    sent == inflight(sub1) + inflight(sub2)
                    started == [task EXCEPT !.pc = "individual", !.sub = <<sub1, sub2>>]
                    end == IF sent = 0 THEN mergeIndividual(started, mem)
                           ELSE [heap |-> heap, cache |-> commanderCache, task |-> started]
                IN  /\ requestsLeft >= sent
                    /\ requestsLeft' = requestsLeft - sent
                    /\ heap' = end.heap
                    /\ commanderCache' = end.cache
                    /\ tasks' = [tasks EXCEPT ![t] = end.task]
    /\ UNCHANGED <<now, comboCache>>
    /\ UNCHANGED notCache

\* The answer to the request of the i-th fetchCommanderData of Promise.all.
fetchPartnerCommanderDataIndividualResponse(t, i, outcome) ==
    /\ tasks[t].op = "fetchPartnerCommanderData"
    /\ tasks[t].pc = "individual"
    /\ tasks[t].sub[i].st = "inflight"
    /\ LET child == fetchCommanderDataEnd(mem, tasks[t].sub[i], outcome)
           task == [tasks[t] EXCEPT !.sub[i] = child.sub, !.answer = answerOf(outcome)]
           end == IF task.sub[3 - i].st = "inflight"
                  THEN [heap |-> child.heap, cache |-> child.cache, task |-> task]
                  ELSE mergeIndividual(task, [heap |-> child.heap, cache |-> child.cache])
       IN  /\ heap' = end.heap
           /\ commanderCache' = end.cache
           /\ tasks' = [tasks EXCEPT ![t] = end.task]
    /\ UNCHANGED <<now, comboCache, requestsLeft>>
    /\ UNCHANGED notCache

\* An entry of themeMap: the theme object and, when that object is one of a
\* cached themes array, its place on the heap (<<0, 0>> for a new object).
themeShared(at, theme) == [at |-> at, theme |-> theme]

\* themeMap.set(theme.name, { ...theme }): a new object, a copy.
themeCopy(at, theme) == [at |-> <<0, 0>>, theme |-> theme]

\* A write to a field of the object of a themeMap entry.
writeTheme(h, entry) ==
    IF entry.at = <<0, 0>> THEN h
    ELSE [h EXCEPT ![entry.at[1]].themes[entry.at[2]] = entry.theme]

themeRefs(h, data) ==
    IF data.themes = 0 THEN <<>>
    ELSE [i \in 1..Len(h[data.themes].themes) |-> <<data.themes, i>>]

\* "for (const theme of [...themes1, ...themes2])"
RECURSIVE mergeThemeLoop(_, _)
mergeThemeLoop(acc, refs) ==
    IF refs = <<>> THEN acc
    ELSE LET theme == acc.heap[Head(refs)[1]].themes[Head(refs)[2]]
             at == {i \in 1..Len(acc.themeMap) : acc.themeMap[i].theme.name = theme.name}
         IN  IF at # {}
             THEN LET i == CHOOSE j \in at : TRUE
                      existing == [acc.themeMap[i] EXCEPT !.theme.count = @ + theme.count]
                  IN  mergeThemeLoop([themeMap |-> [acc.themeMap EXCEPT ![i] = existing],
                                      heap |-> writeTheme(acc.heap, existing)],
                                     Tail(refs))
             ELSE mergeThemeLoop([themeMap |-> Append(acc.themeMap,
                                                      themeCopy(Head(refs), theme)),
                                  heap |-> acc.heap],
                                 Tail(refs))

\* "theme.popularityPercent = ..." for every merged theme
RECURSIVE recalculate(_, _, _)
recalculate(acc, i, totalDecks) ==
    IF i > Len(acc.themeMap) THEN acc
    ELSE LET entry == [acc.themeMap[i] EXCEPT !.theme.popularityPercent =
                          popularityOf(acc.themeMap[i].theme.count, totalDecks)]
         IN  recalculate([themeMap |-> [acc.themeMap EXCEPT ![i] = entry],
                          heap |-> writeTheme(acc.heap, entry)],
                         i + 1, totalDecks)

\* The merge of fetchPartnerThemes: the themes it returns and the heap it leaves.
mergeThemes(h, data1, data2) ==
    LET looped == mergeThemeLoop([themeMap |-> <<>>, heap |-> h],
                                 themeRefs(h, data1) \o themeRefs(h, data2))
        merged == [i \in 1..Len(looped.themeMap) |-> looped.themeMap[i].theme]
        done == recalculate(looped, 1, sumOfCounts(merged))
    IN  [list |-> sortDescending([i \in 1..Len(done.themeMap) |-> done.themeMap[i].theme],
                                 "count"),
         heap |-> done.heap]

mergeIndividualThemes(task, h) ==
    LET data1 == IF hasData(task.sub[1]) THEN task.sub[1].data ELSE noData
        data2 == IF hasData(task.sub[2]) THEN task.sub[2].data ELSE noData
        merge == mergeThemes(h, data1, data2)
    IN  [heap |-> merge.heap,
         task |-> [task EXCEPT !.pc = "done", !.kind = "themes", !.list = merge.list]]

\* fetchPartnerThemes from its i-th slug to its next await or its return.
RECURSIVE tryPartnerSlugs(_, _, _)
tryPartnerSlugs(task, i, m) ==
    IF i > 2
    THEN LET sub1 == fetchCommanderDataStart(m.cache, task.c1, "any", 0)
             sub2 == fetchCommanderDataStart(m.cache, task.c2, "any", 0)
             sent == inflight(sub1) + inflight(sub2)
             started == [task EXCEPT !.pc = "individual", !.sub = <<sub1, sub2>>]
         IN  IF sent = 0
             THEN LET end == mergeIndividualThemes(started, m.heap)
                  IN  [task |-> end.task, heap |-> end.heap, sent |-> 0]
             ELSE [task |-> started, heap |-> m.heap, sent |-> sent]
    ELSE LET sub == fetchCommanderDataStart(m.cache, getPartnerSlugs(task.c1, task.c2)[i],
                                            "any", 0)
         IN  IF sub.st = "cached"
             THEN IF Len(themesOf(m.heap, sub.data)) > 0
                  THEN [task |-> [task EXCEPT !.pc = "done", !.kind = "themes",
                                              !.sub = <<sub, noSub>>, !.data = sub.data,
                                              !.list = themesOf(m.heap, sub.data)],
                        heap |-> m.heap, sent |-> 0]
                  ELSE tryPartnerSlugs(task, i + 1, m)
             ELSE [task |-> [task EXCEPT !.pc = IF i = 1 THEN "slugA" ELSE "slugB",
                                         !.sub = <<sub, noSub>>],
                   heap |-> m.heap, sent |-> 1]

fetchPartnerThemes(t, commander1, commander2) ==
    /\ tasks[t].pc = "idle"
    /\ LET task == [idleTask EXCEPT !.op = "fetchPartnerThemes",
                                    !.c1 = commander1, !.c2 = commander2]
           next == tryPartnerSlugs(task, 1, mem)
       IN  /\ requestsLeft >= next.sent
           /\ requestsLeft' = requestsLeft - next.sent
           /\ heap' = next.heap
           /\ tasks' = [tasks EXCEPT ![t] = next.task]
    /\ UNCHANGED <<now, commanderCache, comboCache>>
    /\ UNCHANGED notCache

\* The answer to fetchCommanderData(slug) for a combined page.
fetchPartnerThemesSlugResponse(t, outcome) ==
    /\ tasks[t].op = "fetchPartnerThemes"
    /\ tasks[t].pc \in {"slugA", "slugB"}
    /\ LET task == [tasks[t] EXCEPT !.answer = answerOf(outcome)]
           child == fetchCommanderDataEnd(mem, task.sub[1], outcome)
           m == [heap |-> child.heap, cache |-> child.cache]
           next == IF child.sub.st = "ok" /\ Len(themesOf(m.heap, child.sub.data)) > 0
                   THEN [task |-> [task EXCEPT !.pc = "done", !.kind = "themes",
                                               !.sub[1] = child.sub,
                                               !.data = child.sub.data,
                                               !.list = themesOf(m.heap, child.sub.data)],
                         heap |-> m.heap, sent |-> 0]
                   ELSE tryPartnerSlugs(task, IF task.pc = "slugA" THEN 2 ELSE 3, m)
       IN  /\ requestsLeft >= next.sent
           /\ requestsLeft' = requestsLeft - next.sent
           /\ heap' = next.heap
           /\ commanderCache' = child.cache
           /\ tasks' = [tasks EXCEPT ![t] = next.task]
    /\ UNCHANGED <<now, comboCache>>
    /\ UNCHANGED notCache

\* The answer to the request of the i-th fetchCommanderData of Promise.all.
fetchPartnerThemesIndividualResponse(t, i, outcome) ==
    /\ tasks[t].op = "fetchPartnerThemes"
    /\ tasks[t].pc = "individual"
    /\ tasks[t].sub[i].st = "inflight"
    /\ LET child == fetchCommanderDataEnd(mem, tasks[t].sub[i], outcome)
           task == [tasks[t] EXCEPT !.sub[i] = child.sub, !.answer = answerOf(outcome)]
           end == IF task.sub[3 - i].st = "inflight"
                  THEN [heap |-> child.heap, task |-> task]
                  ELSE mergeIndividualThemes(task, child.heap)
       IN  /\ heap' = end.heap
           /\ commanderCache' = child.cache
           /\ tasks' = [tasks EXCEPT ![t] = end.task]
    /\ UNCHANGED <<now, comboCache, requestsLeft>>
    /\ UNCHANGED notCache

(***************************************************************************)
(* The fetchers that never throw: fetchTopCommanders and                   *)
(* fetchPartnerPopularity (fetchCommanderCombos is above).                 *)
(***************************************************************************)
absent == -1   \* a numeric field the provider left out

WUBRG == <<"W", "U", "B", "R", "G">>

\* WUBRG.indexOf(c)
indexOfColor(c) ==
    IF \E i \in 1..Len(WUBRG) : WUBRG[i] = c
    THEN (CHOOSE i \in 1..Len(WUBRG) : WUBRG[i] = c) - 1
    ELSE -1

RECURSIVE insertColor(_, _)
insertColor(sorted, c) ==
    IF sorted = <<>> THEN <<c>>
    ELSE IF indexOfColor(c) < indexOfColor(Head(sorted))
    THEN <<c>> \o sorted
    ELSE <<Head(sorted)>> \o insertColor(Tail(sorted), c)

\* [...colors].filter(c => c !== 'C').sort(by WUBRG.indexOf)
RECURSIVE sortColors(_)
sortColors(colors) ==
    IF colors = <<>> THEN <<>>
    ELSE LET rest == sortColors(SubSeq(colors, 1, Len(colors) - 1))
             c == colors[Len(colors)]
         IN  IF c = "C" THEN rest ELSE insertColor(rest, c)

\* sorted.join('')
RECURSIVE joinColors(_)
joinColors(sorted) ==
    IF sorted = <<>> THEN "" ELSE Head(sorted) \o joinColors(Tail(sorted))

topCommandersKey(colors) ==
    IF \E i \in 1..Len(colors) : colors[i] = "C" THEN "C"
    ELSE joinColors(sortColors(colors))

\* COLOR_SLUG_MAP[key]; "" stands for undefined.
COLOR_SLUG_MAP(key) ==
    CASE key = "" -> "year"
      [] key = "C" -> "colorless"
      [] key = "W" -> "mono-white"   [] key = "U" -> "mono-blue"
      [] key = "B" -> "mono-black"   [] key = "R" -> "mono-red"
      [] key = "G" -> "mono-green"
      [] key = "WU" -> "azorius"     [] key = "WB" -> "orzhov"
      [] key = "WR" -> "boros"       [] key = "WG" -> "selesnya"
      [] key = "UB" -> "dimir"       [] key = "UR" -> "izzet"
      [] key = "UG" -> "simic"       [] key = "BR" -> "rakdos"
      [] key = "BG" -> "golgari"     [] key = "RG" -> "gruul"
      [] key = "WUB" -> "esper"      [] key = "WUR" -> "jeskai"
      [] key = "WUG" -> "bant"       [] key = "WBR" -> "mardu"
      [] key = "WBG" -> "abzan"      [] key = "WRG" -> "naya"
      [] key = "UBR" -> "grixis"     [] key = "UBG" -> "sultai"
      [] key = "URG" -> "temur"      [] key = "BRG" -> "jund"
      [] key = "WUBR" -> "yore-tiller"  [] key = "WUBG" -> "witch-maw"
      [] key = "WURG" -> "ink-treader"  [] key = "WBRG" -> "dune-brood"
      [] key = "UBRG" -> "glint-eye"    [] key = "WUBRG" -> "five-color"
      [] OTHER -> ""

\* The names of the provider's list that contain '//'.
PairNames == {"Kraum // Tymna"}

\* c.toUpperCase()
toUpperCase(c) ==
    CASE c = "w" -> "W" [] c = "u" -> "U" [] c = "b" -> "B"
      [] c = "r" -> "R" [] c = "g" -> "G" [] OTHER -> c

\* cardlists[0].cardviews of a top-commanders page.
topPage ==
    [cardviews |-> <<[name |-> "Kraum // Tymna", sanitized |-> "kraum-tymna",
                      num_decks |-> 9, inclusion |-> absent, color_identity |-> <<>>],
                     [name |-> "Edgar Markov", sanitized |-> "edgar-markov",
                      num_decks |-> absent, inclusion |-> 7, color_identity |-> <<>>],
                     [name |-> "Atraxa, Praetors' Voice", sanitized |-> "atraxa-praetors-voice",
                      num_decks |-> 5, inclusion |-> 6, color_identity |-> <<"g", "w">>]>>,
     partnercounts |-> <<>>, redirect |-> ""]

\* partnercounts of a partners page.
partnersPage ==
    [cardviews |-> <<>>,
     partnercounts |-> <<[value |-> "Kraum, Ludevic's Opus", count |-> 9],
                         [value |-> "Thrasios, Triton Hero", count |-> 4]>>,
     redirect |-> ""]

\* A page with neither list, and the failures.
barePage == [cardviews |-> <<>>, partnercounts |-> <<>>, redirect |-> ""]

ListOutcomes(page) ==
    {[status |-> "ok", body |-> page], [status |-> "ok", body |-> barePage],
     [status |-> "ok", body |-> [barePage EXCEPT !.redirect = "/commanders/year"]],
     [status |-> "error", body |-> barePage]}

TopCount == 12

\* The commanders fetchTopCommanders builds from the page.
parseTopCommanders(cardviews, key, sorted) ==
    LET singles == SelectSeq(cardviews, LAMBDA e : e.name \notin PairNames)
        top == SubSeq(singles, 1, IF Len(singles) < TopCount THEN Len(singles) ELSE TopCount)
    IN  [i \in 1..Len(top) |->
            [rank |-> i,
             name |-> top[i].name,
             sanitized |-> top[i].sanitized,
             colorIdentity |->
                 IF key = ""
                 THEN [j \in 1..Len(top[i].color_identity) |->
                          toUpperCase(top[i].color_identity[j])]
                 ELSE IF key = "C" THEN <<>> ELSE sorted,
             numDecks |-> IF top[i].num_decks # absent THEN top[i].num_decks
                          ELSE IF top[i].inclusion # absent THEN top[i].inclusion
                          ELSE 0]]

\* What getCardsByNames may return for the names asked: nothing, or the cards.
CardMaps == { <<>>, [n \in {"Edgar Markov"} |-> [color_identity |-> <<"W", "B", "R">>]] }

\* commanders.map(c => c.colorIdentity.length > 0 ? c : {...c, colorIdentity: ...})
fillColorIdentity(commanders, cardMap) ==
    [i \in 1..Len(commanders) |->
        IF Len(commanders[i].colorIdentity) > 0 THEN commanders[i]
        ELSE [commanders[i] EXCEPT !.colorIdentity =
                 IF commanders[i].name \in DOMAIN cardMap
                 THEN cardMap[commanders[i].name].color_identity ELSE <<>>]]

\* "cached && Date.now() - cached.timestamp < TOP_COMMANDER_CACHE_TTL"
topCacheHit(cache, key) ==
    key \in DOMAIN cache /\ now - cache[key].timestamp < TOP_COMMANDER_CACHE_TTL

\* "cached?.data ?? []", cached being topCommanderCache.get(key).
noFallback(cache, key) == <<>>

cachedOrEmpty(cache, key) ==
    IF key \in DOMAIN cache THEN cache[key].data ELSE <<>>

\* fetchTopCommanders up to its first await.  While the request is in
\* flight, list holds what `cached` holds: the catch clause returns it.
fetchTopCommanders(t, colors) ==
    /\ tasks[t].pc = "idle"
    /\ LET key == topCommandersKey(colors)
           slug == COLOR_SLUG_MAP(key)
           hit == slug # "" /\ topCacheHit(topCommanderCache, key)
           sent == IF slug = "" \/ hit THEN 0 ELSE 1
       IN  /\ requestsLeft >= sent
           /\ requestsLeft' = requestsLeft - sent
           /\ tasks' = [tasks EXCEPT ![t] =
                  [idleTask EXCEPT
                       !.op = "fetchTopCommanders", !.colors = colors,
                       !.sub = <<[st |-> IF slug = "" THEN "none"
                                         ELSE IF hit THEN "cached" ELSE "inflight",
                                  key |-> key,
                                  endpoint |-> IF sent = 0 THEN ""
                                               ELSE "/pages/commanders/" \o slug \o ".json",
                                  data |-> noData], noSub>>,
                       !.pc = IF sent = 0 THEN "done" ELSE "fetching",
                       !.kind = IF sent = 0 THEN "commanders" ELSE "none",
                       !.list = IF slug = "" THEN <<>>
                                ELSE cachedOrEmpty(topCommanderCache, key)]]
    /\ UNCHANGED <<now, commanderCache, comboCache, heap, listCaches>>
    /\ UNCHANGED notClient

\* The answer of the provider.  A page of the overall list whose entries
\* lack a colour identity is completed by a card lookup before it is cached.
fetchTopCommandersResponse(t, outcome) ==
    /\ tasks[t].pc = "fetching"
    /\ tasks[t].op = "fetchTopCommanders"
    /\ LET key == tasks[t].sub[1].key
           commanders == parseTopCommanders(outcome.body.cardviews, key,
                                            sortColors(tasks[t].colors))
       IN  IF edhrecFetchThrows(outcome)
           THEN /\ tasks' = [tasks EXCEPT ![t].sub[1].st = "failed",
                                          ![t].pc = "done",
                                          ![t].kind = "commanders",
                                          ![t].answer = answerOf(outcome)]
                /\ UNCHANGED topCommanderCache
           ELSE IF key = "" /\ \E i \in 1..Len(commanders) : Len(commanders[i].colorIdentity) = 0
           THEN /\ tasks' = [tasks EXCEPT ![t].pc = "lookup",
                                          ![t].list = commanders,
                                          ![t].answer = answerOf(outcome)]
                /\ UNCHANGED topCommanderCache
           ELSE /\ topCommanderCache' = mapSet(topCommanderCache, key,
                                               [data |-> commanders, timestamp |-> now])
                /\ tasks' = [tasks EXCEPT ![t].sub[1].st = "ok",
                                          ![t].pc = "done",
                                          ![t].kind = "commanders",
                                          ![t].list = commanders,
                                          ![t].answer = answerOf(outcome)]
    /\ UNCHANGED <<now, commanderCache, comboCache, heap, requestsLeft, partnerPopularityCache>>
    /\ UNCHANGED notClient

\* getCardsByNames has returned (an empty map when the lookup failed).
fetchTopCommandersLookup(t, cardMap) ==
    /\ tasks[t].pc = "lookup"
    /\ tasks[t].op = "fetchTopCommanders"
    /\ LET commanders == fillColorIdentity(tasks[t].list, cardMap)
       IN  /\ topCommanderCache' = mapSet(topCommanderCache, tasks[t].sub[1].key,
                                          [data |-> commanders, timestamp |-> now])
           /\ tasks' = [tasks EXCEPT ![t].sub[1].st = "ok",
                                     ![t].pc = "done",
                                     ![t].kind = "commanders",
                                     ![t].list = commanders]
    /\ UNCHANGED <<now, commanderCache, comboCache, heap, requestsLeft, partnerPopularityCache>>
    /\ UNCHANGED notClient

\* new Map() filled with result.set(entry.value, entry.count)
RECURSIVE partnerCounts(_)
partnerCounts(entries) ==
    IF entries = <<>> THEN <<>>
    ELSE mapSet(partnerCounts(SubSeq(entries, 1, Len(entries) - 1)),
                entries[Len(entries)].value, entries[Len(entries)].count)

fetchPartnerPopularity(t, commanderName) ==
    /\ tasks[t].pc = "idle"
    /\ LET formattedName == formatCommanderNameForUrl(commanderName)
           cacheKey == "partners-" \o formattedName
           hit == cacheHit(partnerPopularityCache, cacheKey)
           sent == IF hit THEN 0 ELSE 1
       IN  /\ requestsLeft >= sent
           /\ requestsLeft' = requestsLeft - sent
           /\ tasks' = [tasks EXCEPT ![t] =
                  [idleTask EXCEPT
                       !.op = "fetchPartnerPopularity", !.c1 = commanderName,
                       !.sub = <<[st |-> IF hit THEN "cached" ELSE "inflight",
                                  key |-> cacheKey,
                                  endpoint |-> IF hit THEN ""
                                               ELSE "/pages/partners/" \o formattedName
                                                       \o ".json",
                                  data |-> noData], noSub>>,
                       !.pc = IF hit THEN "done" ELSE "fetching",
                       !.kind = IF hit THEN "popularity" ELSE "none",
                       !.list = IF hit THEN partnerPopularityCache[cacheKey].data ELSE <<>>]]
    /\ UNCHANGED <<now, commanderCache, comboCache, heap, listCaches>>
    /\ UNCHANGED notClient

fetchPartnerPopularityResponse(t, outcome) ==
    /\ tasks[t].pc = "fetching"
    /\ tasks[t].op = "fetchPartnerPopularity"
    /\ IF edhrecFetchThrows(outcome)
       THEN /\ tasks' = [tasks EXCEPT ![t].sub[1].st = "failed",
                                      ![t].pc = "done",
                                      ![t].kind = "popularity",
                                      ![t].list = <<>>,
                                      ![t].answer = answerOf(outcome)]
            /\ UNCHANGED partnerPopularityCache
       ELSE LET result == partnerCounts(outcome.body.partnercounts)
            IN  /\ partnerPopularityCache' =
                       mapSet(partnerPopularityCache, tasks[t].sub[1].key,
                              [data |-> result, timestamp |-> now])
                /\ tasks' = [tasks EXCEPT ![t].sub[1].st = "ok",
                                          ![t].pc = "done",
                                          ![t].kind = "popularity",
                                          ![t].list = result,
                                          ![t].answer = answerOf(outcome)]
    /\ UNCHANGED <<now, commanderCache, comboCache, heap, requestsLeft, topCommanderCache>>
    /\ UNCHANGED notClient

\* The caller has its result; the slot is free for another call.
Return(t) ==
    /\ tasks[t].pc = "done"
    /\ tasks' = [tasks EXCEPT ![t] = idleTask]
    /\ UNCHANGED <<now, commanderCache, comboCache, heap, requestsLeft>>
    /\ UNCHANGED notCache

\* Time passes: Date.now() becomes `instant`.
Tick(instant) ==
    /\ instant > now
    /\ instant <= StartTime + MaxElapsed
    /\ now' = instant
    /\ UNCHANGED cacheVars
    /\ UNCHANGED notCache

CacheIdle ==
    /\ commanderCache = <<>>
    /\ comboCache = <<>>
    /\ heap = <<>>
    /\ tasks = [t \in TaskIds |-> idleTask]
    /\ topCommanderCache = <<>>
    /\ partnerPopularityCache = <<>>


NetStart ==
    /\ now = StartTime
    /\ provider \in Providers
    /\ lastRequestTime = 0
    /\ callers = [c \in Callers |-> idleCaller]
    /\ releases = <<>>
    /\ calls = 0

NetNext ==
    \/ \E c \in Callers : Call(c)
    \/ \E c \in Callers : ThrottleWake(c)
    \/ \E c \in Callers, r \in Responses : Respond(c, r)
    \/ \E c \in Callers : BackoffWake(c)
    \/ \E c \in Callers : Finish(c)
    \/ Advance

NetInit == NetStart /\ ParseIdle /\ SearchIdle /\ CacheIdle /\ requestsLeft = 0 /\ RestIdle

SpecNet == NetInit /\ [][NetNext]_vars

(***************************************************************************)
(* C1: a call of edhrecFetch or scryfallFetch that is answered 429 retries *)
(* exactly once; at most two requests are ever sent for one call.          *)
(***************************************************************************)
C1_AtMostTwoRequests == \A c \in Callers : callers[c].sent <= 2

(***************************************************************************)
(* C2: any two requests released by one RateLimiter start at least         *)
(* MIN_REQUEST_DELAY apart, for every interleaving of its callers.         *)
(***************************************************************************)
C2_MinSpacing ==
    Len(releases) = 2 => releases[2] - releases[1] >= MIN_REQUEST_DELAY

(***************************************************************************)
(* The single-page fetchers and their caches, with the clock stepping      *)
(* around the time-to-live.                                                *)
(***************************************************************************)
ThemeSlugs == {"tokens"}

\* The instants at which calls are made: around one time-to-live after the start.
TTLInstants == {StartTime + d : d \in {1, CACHE_TTL - 1, CACHE_TTL, CACHE_TTL + 1}}

TTLInit ==
    /\ CacheIdle
    /\ RestIdle
    /\ requestsLeft = MaxFetches
    /\ NetStart /\ provider = "edhrec"
    /\ ParseIdle
    /\ SearchIdle

TTLNext ==
    \/ \E t \in TaskIds : fetchCommanderData(t, "Tymna the Weaver", "any", 0)
    \/ \E t \in TaskIds, outcome \in Outcomes : fetchCommanderDataResponse(t, outcome)
    \/ \E t \in TaskIds, theme \in ThemeSlugs :
          fetchCommanderThemeData(t, "Tymna the Weaver", theme, "any", 0)
    \/ \E t \in TaskIds, outcome \in Outcomes : fetchCommanderThemeDataResponse(t, outcome)
    \/ \E t \in TaskIds : fetchCommanderCombos(t, "Tymna the Weaver")
    \/ \E t \in TaskIds, ok \in BOOLEAN, rawCombos \in RawComboResponses :
          fetchCommanderCombosResponse(t, ok, rawCombos)
    \/ \E t \in TaskIds : Return(t)
    \/ \E instant \in TTLInstants : Tick(instant)

SpecTTL == TTLInit /\ [][TTLNext]_vars

SinglePageFetchers == {"fetchCommanderData", "fetchCommanderThemeData", "fetchCommanderCombos"}

\* An entry for the key exists and is younger than CACHE_TTL.
youngEntry(cache, key) == key \in DOMAIN cache /\ now - cache[key].timestamp < CACHE_TTL

\* What one step of the call in slot t does, when it is the first or the
\* last step of a single-page fetcher.
cacheReadThrough(t) ==
    LET before == tasks[t]
        after == tasks'[t]
        key == after.sub[1].key
        combos == after.op = "fetchCommanderCombos"
        cache == IF combos THEN comboCache ELSE commanderCache
        cacheAfter == IF combos THEN comboCache' ELSE commanderCache'
    IN  /\ (before.pc = "idle" /\ after.op \in SinglePageFetchers) =>
              IF youngEntry(cache, key)
              THEN /\ after.pc = "done"
                   /\ IF combos THEN after.kind = "combos" /\ after.list = cache[key].data
                      ELSE after.kind = "data" /\ after.data = cache[key].data
                   /\ requestsLeft' = requestsLeft
                   /\ cacheAfter = cache
              ELSE /\ after.pc = "fetching"
                   /\ after.sub[1].st = "inflight"
                   /\ requestsLeft' = requestsLeft - 1
        /\ (before.pc = "fetching" /\ before.op \in SinglePageFetchers
               /\ after.sub[1].st = "ok") =>
              /\ key \in DOMAIN cacheAfter
              /\ cacheAfter[key].timestamp = now
              /\ IF combos THEN cacheAfter[key].data = after.list
                 ELSE /\ cacheAfter[key].data = after.data
                      /\ after.data.id \notin 1..Len(heap)

(***************************************************************************)
(* C3: fetchCommanderData, fetchCommanderThemeData and                     *)
(* fetchCommanderCombos return the cached value without a request if and   *)
(* only if an entry for the computed key exists and is younger than        *)
(* CACHE_TTL; otherwise they send a request and, when it succeeds, the     *)
(* entry is replaced by the newly parsed data with the current time as its *)
(* timestamp.                                                              *)
(***************************************************************************)
C3_FreshHitElseFetch == [][\A t \in TaskIds : cacheReadThrough(t)]_vars

\* An entry expired, was fetched again and replaced, and the replacement was
\* then served from the cache to another caller.
C3_Witness ==
    \E t, u \in TaskIds :
        /\ t # u
        /\ tasks[t].op = "fetchCommanderData" /\ tasks[t].pc = "done"
        /\ tasks[t].sub[1].st = "ok"
        /\ tasks[u].op = "fetchCommanderData" /\ tasks[u].pc = "done"
        /\ tasks[u].sub[1].st = "cached"
        /\ tasks[u].sub[1].key = tasks[t].sub[1].key
        /\ tasks[u].data = tasks[t].data
        /\ tasks[t].data.id = 2
        /\ DOMAIN commanderCache = {tasks[t].sub[1].key}
        /\ commanderCache[tasks[t].sub[1].key].timestamp = StartTime + CACHE_TTL

(***************************************************************************)
(* The partner fetchers, with the single-commander fetcher beside them.    *)
(***************************************************************************)
\* The provider answers a request for a page with that page or with a
\* failure.  The pages of the two commanders differ, and the combined page
\* under the second ordering of the names has no themes.
pageAt(endpoint) ==
    IF endpoint \in {"/pages/commanders/kraum-ludevics-opus.json",
                     "/pages/commanders/kraum-ludevics-opus/budget.json"}
    THEN secondPage
    ELSE IF endpoint = "/pages/commanders/kraum-ludevics-opus-tymna-the-weaver.json"
    THEN pageWithoutThemes
    ELSE firstPage

PageOutcomes(endpoint) ==
    {[status |-> "ok", body |-> pageAt(endpoint)], [status |-> "ok", body |-> redirectPage],
     [status |-> "error", body |-> emptyBody]}

PartnerInit ==
    /\ CacheIdle
    /\ RestIdle
    /\ requestsLeft = MaxRequests
    /\ NetStart /\ provider = "edhrec"
    /\ ParseIdle
    /\ SearchIdle

\* The partner fetchers are called one at a time, by caller 1; any caller
\* may fetch a single commander meanwhile.
PartnerNext ==
    \/ fetchPartnerCommanderData(1, "Tymna the Weaver", "Kraum, Ludevic's Opus", "any", 0)
    \/ \E outcome \in PageOutcomes(tasks[1].sub[1].endpoint) :
          fetchPartnerCommanderDataSlugResponse(1, outcome)
    \/ \E i \in {1, 2} : \E outcome \in PageOutcomes(tasks[1].sub[i].endpoint) :
          fetchPartnerCommanderDataIndividualResponse(1, i, outcome)
    \/ fetchPartnerThemes(1, "Tymna the Weaver", "Kraum, Ludevic's Opus")
    \/ \E outcome \in PageOutcomes(tasks[1].sub[1].endpoint) :
          fetchPartnerThemesSlugResponse(1, outcome)
    \/ \E i \in {1, 2} : \E outcome \in PageOutcomes(tasks[1].sub[i].endpoint) :
          fetchPartnerThemesIndividualResponse(1, i, outcome)
    \/ \E t \in TaskIds, c \in Commanders : fetchCommanderData(t, c, "any", 0)
    \/ \E t \in TaskIds : \E outcome \in PageOutcomes(tasks[t].sub[1].endpoint) :
          fetchCommanderDataResponse(t, outcome)
    \/ \E t \in TaskIds : Return(t)
    \/ Tick(StartTime + CACHE_TTL)

SpecPartner == PartnerInit /\ [][PartnerNext]_vars

\* The names of the cards of one category.
namesIn(list) == {list[i].name : i \in 1..Len(list)}

\* What one step of a call of fetchPartnerCommanderData in slot t does.
partnerFallback(t) ==
    LET before == tasks[t]
        after == tasks'[t]
        slug1 == formatCommanderNameForUrl(after.c1)
        slug2 == formatCommanderNameForUrl(after.c2)
        suffix == getBracketSuffix(after.bracket) \o getBudgetSuffix(after.budget)
        keyA == slug1 \o "-" \o slug2 \o suffix
        keyB == slug2 \o "-" \o slug1 \o suffix
        young == {k \in {keyA, keyB} : youngEntry(commanderCache, k)}
        requested(key) == /\ after.sub[1].st = "inflight"
                          /\ after.sub[1].endpoint = "/pages/commanders/" \o key \o ".json"
                          /\ requestsLeft' = requestsLeft - 1
        fromPage == /\ after.pc = "done" /\ after.kind = "data"
                    /\ after.sub[1].st = "ok" /\ after.data = after.sub[1].data
        individually(i, c) ==
            /\ after.sub[i].key = formatCommanderNameForUrl(c) \o suffix
            /\ after.sub[i].st \in {"cached", "inflight", "ok", "failed"}
        got == {i \in {1, 2} : after.sub[i].st \in {"cached", "ok"}}
        settled ==
            /\ after.sub[1].st # "inflight" /\ after.sub[2].st # "inflight"
            /\ got = {1, 2} =>
                  /\ after.kind = "data"
                  /\ after.data.id \notin {after.sub[1].data.id, after.sub[2].data.id}
                  /\ \A k \in CategoryKeys :
                        namesIn(cardlistsOf(heap', after.data)[k]) =
                           namesIn(cardlistsOf(heap', after.sub[1].data)[k])
                           \cup namesIn(cardlistsOf(heap', after.sub[2].data)[k])
            /\ \A i \in {1, 2} :
                  got = {i} => after.kind = "data" /\ after.data = after.sub[i].data
            /\ got = {} => after.kind = "threw"
    IN  (after.op = "fetchPartnerCommanderData" /\ after # before) =>
          /\ before.pc = "idle" =>
                IF young # {}
                THEN /\ after.pc = "done" /\ after.kind = "data"
                     /\ after.data \in {commanderCache[k].data : k \in young}
                     /\ requestsLeft' = requestsLeft
                ELSE after.pc = "slugA" /\ requested(keyA)
          /\ before.pc = "slugA" =>
                \/ fromPage
                \/ after.pc = "slugB" /\ requested(keyB)
          /\ before.pc = "slugB" =>
                \/ fromPage
                \/ /\ individually(1, after.c1) /\ individually(2, after.c2)
                   /\ \/ after.pc = "individual" /\ after.kind = "none"
                      \/ after.pc = "done" /\ settled
          /\ before.pc = "individual" =>
                \/ after.pc = "individual" /\ after.kind = "none"
                \/ after.pc = "done" /\ settled
          /\ after.kind = "threw" =>
                /\ before.pc \in {"slugB", "individual"}
                /\ after.sub[1].st = "failed" /\ after.sub[2].st = "failed"

(***************************************************************************)
(* C4: fetchPartnerCommanderData consults the cache for both slug          *)
(* orderings, then requests the combined page commander1-commander2, then  *)
(* commander2-commander1, and only after both failed fetches the two       *)
(* commanders individually; it returns the merged data when both           *)
(* individual fetches give data, the one result when exactly one does, and *)
(* throws only when both fail.                                             *)
(***************************************************************************)
C4_PartnerFallbackOrder == [][\A t \in TaskIds : partnerFallback(t)]_vars

\* Both combined pages failed, both commanders were fetched and merged.
C4_Witness ==
    \E t \in TaskIds :
        /\ tasks[t].op = "fetchPartnerCommanderData" /\ tasks[t].pc = "done"
        /\ tasks[t].kind = "data"
        /\ tasks[t].sub[1].st = "ok" /\ tasks[t].sub[2].st = "ok"
        /\ tasks[t].sub[1].key = "tymna-the-weaver"
        /\ tasks[t].data.id \notin {tasks[t].sub[1].data.id, tasks[t].sub[2].data.id}

ParseInit ==
    ParseIdle /\ NetStart /\ provider = "edhrec" /\ SearchIdle /\ CacheIdle /\ requestsLeft = 0 /\ RestIdle

SpecParse == ParseInit /\ [][ParseNext]_vars

\* The raw entries of the response that feed category k, in response order.
RECURSIVE entriesFor(_, _)
entriesFor(k, lists) ==
    IF lists = <<>> THEN <<>>
    ELSE (IF k \in categoriesOfTag(Head(lists).tag) THEN Head(lists).cardviews ELSE <<>>)
         \o entriesFor(k, Tail(lists))

noRepeatedName(list) ==
    \A i, j \in 1..Len(list) : list[i].name = list[j].name => i = j

(***************************************************************************)
(* C5: after parseCardlists, no output list contains two entries with the  *)
(* same card name (of a repeated name only the entry with the higher       *)
(* inclusion% is kept).                                                    *)
(***************************************************************************)
C5_NoRepeatedName ==
    parsePc # "build" => \A k \in CategoryKeys : noRepeatedName(cardlists[k])

\* The inclusion% the specification gives a raw entry.
statedInclusion(raw) ==
    IF raw.potential_decks = 0 THEN 0
    ELSE (raw.inclusion * 100) \div raw.potential_decks

(***************************************************************************)
(* C6: the inclusion of a parsed card is deckCount / potentialDecks * 100  *)
(* of its raw entry, and 0 when potentialDecks is zero or missing; so it   *)
(* lies in 0..100 whenever deckCount <= potentialDecks.                    *)
(***************************************************************************)
C6_InclusionFormula ==
    parsePc # "build" =>
        \A k \in CategoryKeys : \A i \in 1..Len(cardlists[k]) :
            LET card == cardlists[k][i]
                raws == entriesFor(k, rawCardLists)
            IN  /\ \E p \in 1..Len(raws) :
                      /\ raws[p].name = card.name
                      /\ card.inclusion = statedInclusion(raws[p])
                /\ card.inclusion \in 0..100

nameRank(n) == CASE n = "A" -> 1 [] n = "B" -> 2 [] OTHER -> 3

\* a may stand before b: higher inclusion%, then higher deck count, then name.
precedes(a, b) ==
    \/ a.inclusion > b.inclusion
    \/ a.inclusion = b.inclusion /\ a.num_decks > b.num_decks
    \/ a.inclusion = b.inclusion /\ a.num_decks = b.num_decks
          /\ nameRank(a.name) <= nameRank(b.name)

(***************************************************************************)
(* C7, as stated: every category list of parseCardlists and mergeCardlists *)
(* is ordered by inclusion% descending, ties broken by num_decks           *)
(* descending and then by name ascending.                                  *)
(***************************************************************************)
C7_TieBreakOrder ==
    /\ parsePc # "build" =>
          \A k \in CategoryKeys : \A i \in 1..(Len(cardlists[k]) - 1) :
              precedes(cardlists[k][i], cardlists[k][i + 1])
    /\ parsePc = "merged" =>
          \A k \in CategoryKeys : \A i \in 1..(Len(mergedLists[k]) - 1) :
              precedes(mergedLists[k][i], mergedLists[k][i + 1])

firstAt(list, name) == CHOOSE p \in 1..Len(list) :
    list[p].name = name /\ \A q \in 1..(p - 1) : list[q].name # name

(***************************************************************************)
(* C7, amended: every category list of parseCardlists and mergeCardlists   *)
(* is ordered by inclusion% descending only; entries of equal inclusion%   *)
(* keep their insertion order (for parseCardlists the order of the raw     *)
(* entries in the response, for mergeCardlists the order in which their    *)
(* names first occur in list1 followed by list2).                          *)
(***************************************************************************)
C7_InclusionOrder ==
    /\ parsePc # "build" =>
          \A k \in CategoryKeys :
              LET list == cardlists[k]
                  raws == entriesFor(k, rawCardLists)
              IN \A i, j \in 1..Len(list) : i < j =>
                    /\ list[i].inclusion >= list[j].inclusion
                    /\ list[i].inclusion = list[j].inclusion =>
                          \E p, q \in 1..Len(raws) :
                              /\ p < q
                              /\ raws[p].name = list[i].name
                              /\ inclusionPercent(raws[p]) = list[i].inclusion
                              /\ raws[q].name = list[j].name
                              /\ inclusionPercent(raws[q]) = list[j].inclusion
    /\ parsePc = "merged" =>
          \A k \in CategoryKeys :
              LET list == mergedLists[k]
                  input == mergeArgs[1][k] \o mergeArgs[2][k]
              IN \A i, j \in 1..Len(list) : i < j =>
                    /\ list[i].inclusion >= list[j].inclusion
                    /\ list[i].inclusion = list[j].inclusion =>
                          firstAt(input, list[i].name) < firstAt(input, list[j].name)

\* A merge has produced a list with two entries of equal inclusion%.
C7_Witness ==
    /\ parsePc = "merged"
    /\ \E k \in CategoryKeys : \E i, j \in 1..Len(mergedLists[k]) :
          i < j /\ mergedLists[k][i].inclusion = mergedLists[k][j].inclusion
    /\ \E k \in CategoryKeys : \E i, j \in 1..Len(cardlists[k]) :
          i < j /\ cardlists[k][i].inclusion = cardlists[k][j].inclusion

\* A call of fetchPartnerCommanderData that returned what its two individual
\* fetches gave.
combinedIndividually(t) ==
    /\ tasks[t].op = "fetchPartnerCommanderData"
    /\ tasks[t].pc = "done" /\ tasks[t].kind = "data"
    /\ tasks[t].sub[2].st # "none"

curveAt(curve, cmc) == IF cmc \in DOMAIN curve THEN curve[cmc] ELSE 0

isMean(r, a, b) == 2 * r = a + b

statsAreMean(r, a, b) ==
    /\ isMean(r.deckSize, a.deckSize, b.deckSize)
    /\ \A f \in DOMAIN r.typeDistribution :
          isMean(r.typeDistribution[f], a.typeDistribution[f], b.typeDistribution[f])
    /\ \A f \in DOMAIN r.landDistribution :
          isMean(r.landDistribution[f], a.landDistribution[f], b.landDistribution[f])
    /\ \A cmc \in DOMAIN r.manaCurve \cup DOMAIN a.manaCurve \cup DOMAIN b.manaCurve :
          isMean(curveAt(r.manaCurve, cmc), curveAt(a.manaCurve, cmc),
                 curveAt(b.manaCurve, cmc))

onlySourceUnchanged(t) ==
    \A i \in {1, 2} :
        (hasData(tasks[t].sub[i]) /\ ~hasData(tasks[t].sub[3 - i])) =>
            statsOf(heap, tasks[t].data) = statsOf(heap, tasks[t].sub[i].data)

dataValue(h, data) ==
    [themes |-> themesOf(h, data),
     stats |-> statsOf(h, data),
     cardlists |-> cardlistsOf(h, data),
     similarCommanders |-> IF data.similarCommanders = 0 THEN <<>>
                           ELSE h[data.similarCommanders].similarCommanders]

\* The step leaves what the entry of key k holds as it is.
unmodified(k) ==
    dataValue(heap', commanderCache[k].data) = dataValue(heap, commanderCache[k].data)

\* The entry of key k is another one after the step.
replaced(k) == k \in DOMAIN commanderCache' /\ commanderCache'[k] # commanderCache[k]

\* The new entry of key k holds a data object created in this step.
replacedAsAWhole(k) ==
    /\ commanderCache'[k].data.id \notin 1..Len(heap)
    /\ commanderCache'[k].timestamp = now

\* A request of some call was answered successfully in this step: the page
\* it asked for is in the cache as objects that are all new.
fetchSucceeded ==
    \E t \in TaskIds, i \in {1, 2} :
        LET key == tasks[t].sub[i].key
        IN  /\ tasks[t].sub[i].st = "inflight"
            /\ key \in DOMAIN commanderCache'
            /\ commanderCache'[key].data.id \notin 1..Len(heap)
            /\ commanderCache'[key].data.themes = commanderCache'[key].data.id
            /\ commanderCache'[key].data.stats = commanderCache'[key].data.id
            /\ commanderCache'[key].data.cardlists = commanderCache'[key].data.id

\* A call of fetchPartnerCommanderData stored the merge of its two
\* individual results under key k in this step.
mergeStored(k) ==
    \E t \in TaskIds :
        /\ tasks'[t].op = "fetchPartnerCommanderData"
        /\ tasks[t].pc \in {"slugB", "individual"} /\ tasks'[t].pc = "done"
        /\ hasData(tasks'[t].sub[1]) /\ hasData(tasks'[t].sub[2])
        /\ commanderCache'[k].data = tasks'[t].data

(***************************************************************************)
(* C10 as stated: once an entry is in the commander cache, no operation    *)
(* modifies the data it holds; an entry changes only by being replaced as  *)
(* a whole after a new successful fetch.                                   *)
(***************************************************************************)
C10_ReplacedOnlyAfterFetch ==
    [][\A k \in DOMAIN commanderCache :
          /\ unmodified(k)
          /\ replaced(k) => replacedAsAWhole(k) /\ fetchSucceeded]_vars

(***************************************************************************)
(* C10 as amended: once an entry is in the commander cache, no operation   *)
(* modifies the data it holds; an entry changes only by being replaced as  *)
(* a whole, after a new successful fetch or when fetchPartnerCommanderData *)
(* stores the merge of its two individual results, which may both have     *)
(* come from the cache.                                                    *)
(***************************************************************************)
C10_EntriesImmutable ==
    [][\A k \in DOMAIN commanderCache :
          /\ unmodified(k)
          /\ replaced(k) => replacedAsAWhole(k) /\ (fetchSucceeded \/ mergeStored(k))]_vars

\* fetchPartnerThemes added up the counts of a theme that both commanders'
\* cached data have, and the cached themes still hold their own counts.
C10_Witness ==
    \E t \in TaskIds :
        /\ tasks[t].op = "fetchPartnerThemes" /\ tasks[t].pc = "done"
        /\ hasData(tasks[t].sub[1]) /\ hasData(tasks[t].sub[2])
        /\ \E i \in 1..Len(tasks[t].list) :
              \E j \in 1..Len(themesOf(heap, tasks[t].sub[1].data)) :
              \E l \in 1..Len(themesOf(heap, tasks[t].sub[2].data)) :
                 LET theme1 == themesOf(heap, tasks[t].sub[1].data)[j]
                     theme2 == themesOf(heap, tasks[t].sub[2].data)[l]
                 IN  /\ theme1.name = tasks[t].list[i].name
                     /\ theme2.name = tasks[t].list[i].name
                     /\ tasks[t].list[i].count = theme1.count + theme2.count
                     /\ theme1.count > 0 /\ theme2.count > 0

SearchInit ==
    /\ searchArgs \in [query : Queries, colorIdentity : SUBSET Colors,
                       order : Orders, page : 1..MaxPage]
    /\ searchRequest = [q |-> <<>>, order |-> "edhrec", page |-> 1]
    /\ searchResults = {}
    /\ searchPc = "call"
    /\ NetStart /\ provider = "scryfall"
    /\ ParseIdle
    /\ CacheIdle /\ requestsLeft = 0 /\ RestIdle

SpecSearch == SearchInit /\ [][SearchNext]_vars

(***************************************************************************)
(* C9: every query searchCards builds for a commander colour identity C    *)
(* admits only cards whose colour identity is a subset of C, for every C   *)
(* including the empty one.                                                *)
(***************************************************************************)
C9_WithinColorIdentity ==
    searchPc = "returned" =>
        \A card \in searchResults : card.color_identity \subseteq searchArgs.colorIdentity

(***************************************************************************)
(* C11: an answer that carries a redirect field is never parsed into       *)
(* commander data nor written to commanderCache; the lookup of that slug   *)
(* has failed, and a partner lookup that asked for the first ordering goes *)
(* on with the alternate ordering.                                         *)
(***************************************************************************)
slugKey(task, i) ==
    getPartnerSlugs(task.c1, task.c2)[i] \o getBracketSuffix(task.bracket)
        \o getBudgetSuffix(task.budget)

\* The step is the one in which call t got a redirect for its request.
redirectAnswered(t) ==
    /\ tasks[t].pc \notin {"idle", "done"}
    /\ tasks'[t] # tasks[t]
    /\ tasks'[t].answer = "redirect"

redirectIsFailedLookup(t) ==
    LET before == tasks[t]
        after == tasks'[t]
    IN  redirectAnswered(t) =>
          /\ \A i \in {1, 2} :
                before.sub[i].st = "inflight" /\ after.sub[i] # before.sub[i] =>
                    LET k == before.sub[i].key
                    IN  /\ k \in DOMAIN commanderCache' => /\ k \in DOMAIN commanderCache
                                                          /\ commanderCache'[k] = commanderCache[k]
                        /\ \A j \in (Len(heap) + 1)..Len(heap') :
                               heap'[j] # parseEdhrecResponse(redirectPage, k)
          /\ before.pc = "fetching" =>
                after.pc = "done" /\ after.kind = "threw" /\ after.sub[1].st = "failed"
          /\ before.pc = "slugA" /\ before.op = "fetchPartnerCommanderData" =>
                /\ after.pc = "slugB"
                /\ after.sub[1].st = "inflight"
                /\ after.sub[1].key = slugKey(before, 2)
          /\ before.pc = "slugA" /\ before.op = "fetchPartnerThemes" =>
                \/ /\ after.pc = "slugB"
                   /\ after.sub[1].st = "inflight"
                   /\ after.sub[1].key = slugKey(before, 2)
                \/ /\ after.pc \in {"individual", "done"}
                   /\ cacheHit(commanderCache, slugKey(before, 2))
          /\ before.pc = "slugB" => after.pc \in {"individual", "done"}
          /\ before.pc = "individual" =>
                \A i \in {1, 2} :
                    before.sub[i].st = "inflight" /\ after.sub[i] # before.sub[i]
                        => after.sub[i].st = "failed"

C11_RedirectIsFailedLookup == [][\A t \in TaskIds : redirectIsFailedLookup(t)]_vars

C11_Witness ==
    /\ tasks[1].op = "fetchPartnerCommanderData"
    /\ tasks[1].pc = "slugB"
    /\ tasks[1].answer = "redirect"
    /\ tasks[1].sub[1].key = "kraum-ludevics-opus-tymna-the-weaver"
    /\ commanderCache = <<>>

(***************************************************************************)
(* The fetchers that never throw, with the clock stepping over both        *)
(* times-to-live.                                                          *)
(***************************************************************************)
ColorInputs == { <<>>, <<"G", "W">>, <<"C", "W">>, <<"X">> }

FallbackInstants == {StartTime + CACHE_TTL, StartTime + TOP_COMMANDER_CACHE_TTL}

FallbackInit ==
    /\ CacheIdle
    /\ RestIdle
    /\ requestsLeft = MaxFetches
    /\ NetStart /\ provider = "edhrec"
    /\ ParseIdle
    /\ SearchIdle

FallbackNext ==
    \/ \E t \in TaskIds, colors \in ColorInputs : fetchTopCommanders(t, colors)
    \/ \E t \in TaskIds, outcome \in ListOutcomes(topPage) : fetchTopCommandersResponse(t, outcome)
    \/ \E t \in TaskIds, cardMap \in CardMaps : fetchTopCommandersLookup(t, cardMap)
    \/ \E t \in TaskIds : fetchPartnerPopularity(t, "Tymna the Weaver")
    \/ \E t \in TaskIds, outcome \in ListOutcomes(partnersPage) :
          fetchPartnerPopularityResponse(t, outcome)
    \/ \E t \in TaskIds : fetchCommanderCombos(t, "Tymna the Weaver")
    \/ \E t \in TaskIds, ok \in BOOLEAN, rawCombos \in RawComboResponses :
          fetchCommanderCombosResponse(t, ok, rawCombos)
    \/ \E t \in TaskIds : Return(t)
    \/ \E instant \in FallbackInstants : Tick(instant)

SpecFallback == FallbackInit /\ [][FallbackNext]_vars

(***************************************************************************)
(* C12: fetchTopCommanders, fetchCommanderCombos and fetchPartnerPopularity *)
(* never throw: when the request fails the call returns its fallback (for  *)
(* fetchTopCommanders the list that was cached when it was called, if any, *)
(* otherwise an empty result) and leaves its cache as it was, and a call   *)
(* that finds no fresh entry sends the request.                            *)
(***************************************************************************)
NeverThrowing == {"fetchTopCommanders", "fetchCommanderCombos", "fetchPartnerPopularity"}

\* The step is the one in which the request of call t failed.
lookupFailed(t) ==
    /\ tasks[t].pc = "fetching"
    /\ tasks[t].op \in NeverThrowing
    /\ tasks'[t] # tasks[t]
    /\ tasks'[t].answer \in {"error", "redirect"}

\* The step is the start of a call that is not answered at once.
freshEntry(op, key) ==
    CASE op = "fetchTopCommanders" ->
            /\ key \in DOMAIN topCommanderCache
            /\ now - topCommanderCache[key].timestamp < TOP_COMMANDER_CACHE_TTL
      [] op = "fetchPartnerPopularity" ->
            /\ key \in DOMAIN partnerPopularityCache
            /\ now - partnerPopularityCache[key].timestamp < CACHE_TTL
      [] OTHER ->
            /\ key \in DOMAIN comboCache
            /\ now - comboCache[key].timestamp < CACHE_TTL

failureFallsBack(t) ==
    LET before == tasks[t]
        after == tasks'[t]
        key == after.sub[1].key
    IN  /\ lookupFailed(t) =>
              /\ after.pc = "done"
              /\ after.kind # "threw"
              /\ after.list = IF after.op = "fetchTopCommanders" THEN before.list ELSE <<>>
              /\ UNCHANGED <<topCommanderCache, partnerPopularityCache, comboCache>>
        /\ (before.pc = "idle" /\ after.op \in NeverThrowing /\ after.sub[1].st # "none"
                /\ ~freshEntry(after.op, key)) =>
              /\ after.pc = "fetching"
              /\ requestsLeft' = requestsLeft - 1
              /\ after.op = "fetchTopCommanders" =>
                    after.list = IF key \in DOMAIN topCommanderCache
                                 THEN topCommanderCache[key].data ELSE <<>>

C12_FailureFallsBack == [][\A t \in TaskIds : failureFallsBack(t)]_vars

\* A failed fetchTopCommanders has returned the list of an expired entry.
C12_Witness ==
    /\ tasks[1].op = "fetchTopCommanders"
    /\ tasks[1].pc = "done"
    /\ tasks[1].answer = "error"
    /\ Len(tasks[1].list) = 2
    /\ tasks[1].sub[1].key \in DOMAIN topCommanderCache
    /\ topCommanderCache[tasks[1].sub[1].key].data = tasks[1].list
    /\ now - topCommanderCache[tasks[1].sub[1].key].timestamp >= TOP_COMMANDER_CACHE_TTL

(***************************************************************************)
(* The tagger client: loadTaggerData with its in-flight marker, and the    *)
(* lookups over the loaded tag sets.                                       *)
(***************************************************************************)
TaggedCards == {"Wrath of God", "Swords to Plowshares", "Sol Ring", "Rhystic Study", "Forest"}

\* TaggerData as the tag repository may serve it: tag -> card names.
fullTaggerData ==
    [generatedAt |-> "2026-01-01",
     tags |-> ("boardwipe" :> <<"Wrath of God">>
               @@ "removal" :> <<"Wrath of God", "Swords to Plowshares">>
               @@ "ramp" :> <<"Sol Ring", "Swords to Plowshares">>
               @@ "card-advantage" :> <<"Rhystic Study", "Sol Ring", "Rhystic Study">>)]

partialTaggerData ==
    [generatedAt |-> "2026-02-01",
     tags |-> ("ramp" :> <<"Wrath of God">>
               @@ "lifegain" :> <<"Swords to Plowshares">>)]

TaggerDatas == {fullTaggerData, partialTaggerData}

\* What res.json() ends with: the data, or an exception.
TaggerBodies == {[valid |-> TRUE, data |-> data] : data \in TaggerDatas}
                \cup {[valid |-> FALSE, data |-> partialTaggerData]}

TagNames == {"boardwipe", "removal", "ramp", "card-advantage", "lifegain"}

\* tagSets[tag] = new Set(names), for every tag of the data
buildTagSets(data) ==
    [tag \in DOMAIN data.tags |->
        {data.tags[tag][i] : i \in 1..Len(data.tags[tag])}]

\* "if (fetchPromise) return fetchPromise"
neverInFlight(promise) == FALSE

inFlight(promise) == promise # "null"

\* The async function of fetchPromise has ended with `result`: the marker is
\* cleared and every caller that holds the promise gets the result.
settled(result) ==
    /\ fetchPromise' = "null"
    /\ loaders' = [l \in Loaders |->
                      IF loaders[l].pc = "awaiting"
                      THEN [loaders[l] EXCEPT !.pc = "returned", !.result = result]
                      ELSE loaders[l]]

loadTaggerData(l) ==
    /\ loaders[l].pc = "idle"
    /\ IF taggerCached # null
       THEN /\ loaders' = [loaders EXCEPT ![l] = [pc |-> "returned", fetch |-> 0,
                                                  result |-> taggerCached]]
            /\ UNCHANGED <<fetchPromise, taggerRequests>>
       ELSE IF inFlight(fetchPromise)
       THEN /\ loaders' = [loaders EXCEPT ![l] = [pc |-> "awaiting", fetch |-> taggerRequests,
                                                  result |-> null]]
            /\ UNCHANGED <<fetchPromise, taggerRequests>>
       ELSE IF tagRepoUrl = ""
       THEN /\ loaders' = [loaders EXCEPT ![l] = [pc |-> "returned", fetch |-> 0,
                                                  result |-> null]]
            /\ UNCHANGED <<fetchPromise, taggerRequests>>
       ELSE /\ taggerRequests < MaxLoads
            /\ taggerRequests' = taggerRequests + 1
            /\ fetchPromise' = "fetching"
            /\ loaders' = [loaders EXCEPT ![l] = [pc |-> "awaiting",
                                                  fetch |-> taggerRequests + 1,
                                                  result |-> null]]
    /\ UNCHANGED <<taggerCached, tagSets, tagRepoUrl>>
    /\ UNCHANGED notTagger

\* "await fetch(TAG_REPO_URL)" has ended: with res.ok, or with an error
\* status or a rejection, which the catch clause turns into null.
fetchAnswered(ok) ==
    /\ fetchPromise = "fetching"
    /\ IF ok
       THEN fetchPromise' = "parsing" /\ UNCHANGED loaders
       ELSE settled(null)
    /\ UNCHANGED <<taggerCached, tagSets, taggerRequests, tagRepoUrl>>
    /\ UNCHANGED notTagger

\* "await res.json()" has ended: with the data, or by throwing.
jsonParsed(body) ==
    /\ fetchPromise = "parsing"
    /\ IF ~body.valid
       THEN /\ settled(null)
            /\ UNCHANGED <<taggerCached, tagSets>>
       ELSE /\ taggerCached' = <<body.data>>
            /\ tagSets' = <<buildTagSets(body.data)>>
            /\ settled(<<body.data>>)
    /\ UNCHANGED <<taggerRequests, tagRepoUrl>>
    /\ UNCHANGED notTagger

\* The caller has its result.
loaderDone(l) ==
    /\ loaders[l].pc = "returned"
    /\ loaders' = [loaders EXCEPT ![l] = idleLoader]
    /\ UNCHANGED <<taggerCached, fetchPromise, tagSets, taggerRequests, tagRepoUrl>>
    /\ UNCHANGED notTagger

\* tagSets?.[tag]?.has(cardName) ?? false
hasTag(sets, cardName, tag) ==
    IF sets = null THEN FALSE
    ELSE IF tag \notin DOMAIN sets[1] THEN FALSE
    ELSE cardName \in sets[1][tag]

\* The order in which getTaggerRole asks for the tags.
removalFirst == <<[tag |-> "removal", role |-> "removal"],
                  [tag |-> "boardwipe", role |-> "boardwipe"],
                  [tag |-> "ramp", role |-> "ramp"],
                  [tag |-> "card-advantage", role |-> "cardDraw"]>>

rolePriority == <<[tag |-> "boardwipe", role |-> "boardwipe"],
                  [tag |-> "removal", role |-> "removal"],
                  [tag |-> "ramp", role |-> "ramp"],
                  [tag |-> "card-advantage", role |-> "cardDraw"]>>

getTaggerRole(sets, cardName) ==
    IF sets = null THEN "null"
    ELSE LET hits == {i \in 1..Len(rolePriority) :
                         /\ rolePriority[i].tag \in DOMAIN sets[1]
                         /\ cardName \in sets[1][rolePriority[i].tag]}
         IN  IF hits = {} THEN "null"
             ELSE rolePriority[CHOOSE i \in hits : \A j \in hits : i <= j].role

\* A caller asks for the role of a card, or for one of its tags; libCall
\* keeps what was loaded when it asked.
getTaggerRoleCall(cardName) ==
    /\ libCall' = [fn |-> "getTaggerRole", cardName |-> cardName, tag |-> "",
                   data |-> taggerCached]
    /\ libResult' = getTaggerRole(tagSets, cardName)
    /\ UNCHANGED <<taggerVars, netVars, parseVars, searchVars, cacheVars,
                   collectionVars, cardVars, customVars>>

hasTagCall(cardName, tag) ==
    /\ libCall' = [fn |-> "hasTag", cardName |-> cardName, tag |-> tag,
                   data |-> taggerCached]
    /\ libResult' = hasTag(tagSets, cardName, tag)
    /\ UNCHANGED <<taggerVars, netVars, parseVars, searchVars, cacheVars,
                   collectionVars, cardVars, customVars>>

\* The other parts, idle.
ClientIdle ==
    /\ NetStart /\ provider = "edhrec"
    /\ ParseIdle
    /\ SearchIdle
    /\ CacheIdle /\ requestsLeft = 0

TaggerInit ==
    /\ TaggerIdle
    /\ tagRepoUrl \in {"", "https://tags.example/tags.json"}
    /\ LibIdle
    /\ CollectionIdle
    /\ CardsIdle /\ cardRequests = 0
    /\ CustomIdle
    /\ ClientIdle

TaggerNext ==
    \/ \E l \in Loaders : loadTaggerData(l)
    \/ \E ok \in BOOLEAN : fetchAnswered(ok)
    \/ \E body \in TaggerBodies : jsonParsed(body)
    \/ \E l \in Loaders : loaderDone(l)
    \/ \E cardName \in TaggedCards : getTaggerRoleCall(cardName)
    \/ \E cardName \in TaggedCards, tag \in TagNames : hasTagCall(cardName, tag)

SpecTagger == TaggerInit /\ [][TaggerNext]_vars

(***************************************************************************)
(* C13: loadTaggerData may be called any number of times.  Calls made      *)
(* while a fetch is in flight send no request and get the result of that   *)
(* fetch; after a successful load no call sends a request; after a failed  *)
(* load the marker is cleared and a later call sends a new request.        *)
(***************************************************************************)
\* The callers that waited for one fetch got one result.
sameResult ==
    \A l1, l2 \in Loaders :
        (/\ loaders[l1].pc = "returned" /\ loaders[l2].pc = "returned"
         /\ loaders[l1].fetch # 0 /\ loaders[l1].fetch = loaders[l2].fetch)
            => loaders[l1].result = loaders[l2].result

loadedOnce ==
    \* a request is sent only when nothing is loaded and nothing is in flight
    /\ taggerRequests' # taggerRequests =>
          /\ taggerRequests' = taggerRequests + 1
          /\ fetchPromise = "null" /\ taggerCached = null
          /\ fetchPromise' = "fetching"
    \* a call made while the fetch is in flight waits for that fetch
    /\ \A l \in Loaders :
          (loaders[l].pc = "idle" /\ loaders'[l].pc # "idle" /\ fetchPromise # "null") =>
              /\ loaders'[l].pc = "awaiting"
              /\ loaders'[l].fetch = taggerRequests
              /\ UNCHANGED <<taggerRequests, fetchPromise>>
    \* the end of the fetch answers every waiting caller with its result
    /\ (fetchPromise # "null" /\ fetchPromise' = "null") =>
          \A l \in Loaders :
              loaders[l].pc = "awaiting" =>
                  /\ loaders'[l].pc = "returned"
                  /\ loaders'[l].result = taggerCached'
    /\ sameResult'
    \* once loaded, every call returns the data at once
    /\ \A l \in Loaders :
          (loaders[l].pc = "idle" /\ loaders'[l].pc # "idle" /\ taggerCached # null) =>
              /\ loaders'[l].pc = "returned"
              /\ loaders'[l].result = taggerCached
    \* after a failed load the next call sends a request
    /\ \A l \in Loaders :
          (/\ loaders[l].pc = "idle" /\ loaders'[l].pc # "idle"
           /\ taggerCached = null /\ fetchPromise = "null" /\ tagRepoUrl # "") =>
              /\ taggerRequests' = taggerRequests + 1
              /\ loaders'[l].pc = "awaiting"

C13_LoadedOnce == [][loadedOnce]_vars

\* Three callers have the data of the one request that was sent.
C13_Witness ==
    /\ taggerRequests = 1
    /\ \A l \in Loaders : /\ loaders[l].pc = "returned"
                          /\ loaders[l].fetch = 1
                          /\ loaders[l].result = <<fullTaggerData>>

(***************************************************************************)
(* C14: without tagger data getTaggerRole returns null for every card and  *)
(* hasTag returns false; with data getTaggerRole returns the first role,   *)
(* in the order boardwipe, removal, ramp, cardDraw, whose tag the card     *)
(* has, and null if it has none of them.                                   *)
(***************************************************************************)
\* The card is listed under the tag in the data that was loaded.
listed(data, tag, cardName) ==
    /\ tag \in DOMAIN data.tags
    /\ \E i \in 1..Len(data.tags[tag]) : data.tags[tag][i] = cardName

statedRole(data, cardName) ==
    IF listed(data, "boardwipe", cardName) THEN "boardwipe"
    ELSE IF listed(data, "removal", cardName) THEN "removal"
    ELSE IF listed(data, "ramp", cardName) THEN "ramp"
    ELSE IF listed(data, "card-advantage", cardName) THEN "cardDraw"
    ELSE "null"

C14_RoleByPriority ==
    /\ libCall.fn = "getTaggerRole" =>
          libResult = IF libCall.data = null THEN "null"
                      ELSE statedRole(libCall.data[1], libCall.cardName)
    /\ libCall.fn = "hasTag" =>
          libResult = IF libCall.data = null THEN FALSE
                      ELSE listed(libCall.data[1], libCall.tag, libCall.cardName)

\* A card listed as board wipe and as removal is a board wipe.
C14_Witness ==
    /\ libCall.fn = "getTaggerRole"
    /\ libCall.cardName = "Wrath of God"
    /\ libCall.data = <<fullTaggerData>>
    /\ libResult = "boardwipe"

(***************************************************************************)
(* The pure functions of the library, applied to bounded arguments:        *)
(* libCall holds the function's name and arguments, libResult <<result>>   *)
(* once it has returned.                                                   *)
(***************************************************************************)

(***************************************************************************)
(* The theme registry and buildQueriesFromThemes.                          *)
(***************************************************************************)
\* Some entries of THEME_QUERY_MAP.
THEME_QUERY_MAP ==
    ("tokens" :> [primary |-> "o:\"create\" o:\"token\"",
                  keywords |-> <<"create", "token", "populate", "creatures you control">>]
     @@ "go wide" :> [primary |-> "o:\"creatures you control\" OR o:\"each creature you control\"",
                      keywords |-> <<"creatures you control", "anthem", "overrun">>]
     @@ "counters" :> [primary |-> "o:\"counter on\" OR o:\"proliferate\"",
                       keywords |-> <<"counter", "proliferate">>]
     @@ "proliferate" :> [primary |-> "o:\"proliferate\"",
                          keywords |-> <<"proliferate", "counter">>]
     @@ "elves" :> [primary |-> "t:elf", keywords |-> <<"elf", "elves">>])

\* The theme names a caller may pass.
ThemeNames == {"Tokens", " Go Wide ", "go wide", "ELVES", "proliferate", "counters ",
               "gowide", "Mill Crabs"}

\* String.prototype.toLowerCase on those names
toLowerCase(str) ==
    CASE str = "Tokens" -> "tokens"
      [] str = " Go Wide " -> " go wide "
      [] str = "Go Wide" -> "go wide"
      [] str = "ELVES" -> "elves"
      [] str = "Mill Crabs" -> "mill crabs"
      [] str = "Thassa's Oracle" -> "thassa's oracle"
      [] str = "Demonic Consultation" -> "demonic consultation"
      [] str = "Sol Ring" -> "sol ring"
      [] str = "SOL RING" -> "sol ring"
      [] str = "Opt" -> "opt"
      [] OTHER -> str

\* String.prototype.trim on those names and their lower-case forms
trim(str) ==
    CASE str = " Go Wide " -> "Go Wide"
      [] str = " go wide " -> "go wide"
      [] str = "counters " -> "counters"
      [] OTHER -> str

\* primary.startsWith('t:')
startsWithType(primary) == primary \in {"t:elf", "t:creature"}

\* themeName.toLowerCase().trim(), looked up in the registry; null if absent.
getQueryForThemeExact(themeName) ==
    IF themeName \in DOMAIN THEME_QUERY_MAP THEN <<THEME_QUERY_MAP[themeName]>> ELSE null

getQueryForTheme(themeName) ==
    LET normalized == trim(toLowerCase(themeName))
    IN  IF normalized \in DOMAIN THEME_QUERY_MAP THEN <<THEME_QUERY_MAP[normalized]>> ELSE null

\* array.join(separator)
RECURSIVE join(_, _)
join(parts, separator) ==
    IF parts = <<>> THEN ""
    ELSE IF Len(parts) = 1 THEN parts[1]
    ELSE parts[1] \o separator \o join(Tail(parts), separator)

\* queries.flatMap(q => q.keywords)
RECURSIVE flatKeywords(_)
flatKeywords(queries) ==
    IF queries = <<>> THEN <<>>
    ELSE Head(queries).keywords \o flatKeywords(Tail(queries))

\* [...new Set(list)]: the first occurrence of each element, in order
RECURSIVE unique(_)
unique(list) ==
    IF list = <<>> THEN <<>>
    ELSE LET front == unique(SubSeq(list, 1, Len(list) - 1))
             last == list[Len(list)]
         IN  IF \E i \in 1..Len(front) : front[i] = last THEN front
             ELSE Append(front, last)

buildQueriesFromThemes(themeNames) ==
    LET looked == [i \in 1..Len(themeNames) |-> getQueryForTheme(themeNames[i])]
        present == SelectSeq(looked, LAMBDA q : q # null)
        queries == [i \in 1..Len(present) |-> present[i][1]]
    IN  IF Len(queries) = 0
        THEN [creatureQuery |-> "t:creature", synergyQuery |-> "", keywords |-> <<>>]
        ELSE LET keywords == unique(flatKeywords(queries))
                 primaryQueries == [i \in 1..Len(queries) |->
                                       "(" \o queries[i].primary \o ")"]
                 tribalQueries == SelectSeq(queries, LAMBDA q : startsWithType(q.primary))
             IN  [creatureQuery |->
                      IF Len(tribalQueries) > 0
                      THEN join([i \in 1..Len(tribalQueries) |-> tribalQueries[i].primary],
                                " OR ")
                      ELSE "t:creature",
                  synergyQuery |-> join(primaryQueries, " OR "),
                  keywords |-> keywords]

\* The lists of at most n theme names.
RECURSIVE ListsOver(_, _)
ListsOver(S, n) ==
    IF n = 0 THEN {<<>>}
    ELSE LET shorter == ListsOver(S, n - 1)
         IN  shorter \cup {Append(l, x) : l \in {m \in shorter : Len(m) = n - 1}, x \in S}

(***************************************************************************)
(* The textual export of the collection and the quantity-line pattern.     *)
(* A text is the sequence of its pieces: every digit, blank and line       *)
(* break is a piece of its own, a run of other characters is one piece.    *)
(***************************************************************************)
Digits == <<"0", "1", "2", "3", "4", "5", "6", "7", "8", "9">>

isDigit(piece) == \E i \in 1..10 : Digits[i] = piece

isSpace(piece) == piece \in {" ", "\t", "\n"}

\* `${quantity}` of a positive integer
RECURSIVE toDigits(_)
toDigits(n) ==
    IF n < 10 THEN <<Digits[n + 1]>>
    ELSE toDigits(n \div 10) \o <<Digits[(n % 10) + 1]>>

digitValue(piece) == (CHOOSE i \in 1..10 : Digits[i] = piece) - 1

\* parseInt(digits, 10)
RECURSIVE parseInt(_)
parseInt(digits) ==
    IF digits = <<>> THEN 0
    ELSE 10 * parseInt(SubSeq(digits, 1, Len(digits) - 1)) + digitValue(digits[Len(digits)])

ExportNames ==
    {<<"Sol", " ", "Ring">>,
     <<"1", "9", "9", "6", " ", "World", " ", "Champion">>,
     <<"Borrowing", " ", "1", "0", "0", ",", "0", "0", "0", " ", "Arrows">>,
     <<"Fire", " ", "//", " ", "Ice">>,
     <<"+", "2", " ", "Mace">>}

ExportQuantities == {1, 4, 20, 107}

ExportCards == [name : ExportNames, quantity : ExportQuantities]

\* `${c.quantity} ${c.name}`
exportLineUnseparated(c) == toDigits(c.quantity) \o c.name

exportLine(c) == toDigits(c.quantity) \o <<" ">> \o c.name

\* lines.join('\n')
RECURSIVE joinLines(_)
joinLines(lines) ==
    IF lines = <<>> THEN <<>>
    ELSE IF Len(lines) = 1 THEN lines[1]
    ELSE lines[1] \o <<"\n">> \o joinLines(Tail(lines))

handleExportText(cards) == joinLines([i \in 1..Len(cards) |-> exportLine(cards[i])])

\* text.split('\n')
RECURSIVE splitLines(_)
splitLines(text) ==
    IF \A i \in 1..Len(text) : text[i] # "\n" THEN <<text>>
    ELSE LET i == CHOOSE k \in 1..Len(text) :
                      text[k] = "\n" /\ \A j \in 1..(k - 1) : text[j] # "\n"
         IN  <<SubSeq(text, 1, i - 1)>> \o splitLines(SubSeq(text, i + 1, Len(text)))

\* The length of the longest prefix of str made of digits only.
RECURSIVE digitRun(_)
digitRun(str) ==
    IF str = <<>> \/ ~isDigit(Head(str)) THEN 0 ELSE 1 + digitRun(Tail(str))

\* The length of the longest prefix of str made of blanks only.
RECURSIVE spaceRun(_)
spaceRun(str) ==
    IF str = <<>> \/ ~isSpace(Head(str)) THEN 0 ELSE 1 + spaceRun(Tail(str))

RECURSIVE trimStart(_)
trimStart(str) == IF str # <<>> /\ isSpace(Head(str)) THEN trimStart(Tail(str)) ELSE str

RECURSIVE trimEnd(_)
trimEnd(str) ==
    IF str # <<>> /\ isSpace(str[Len(str)]) THEN trimEnd(SubSeq(str, 1, Len(str) - 1)) ELSE str

trimPieces(str) == trimEnd(trimStart(str))

\* entry.match(/^(\d+)\s+(.+)$/): null, or <<[digits, rest]>>.  \d+ takes every
\* leading digit (with fewer, \s+ would meet a digit); \s+ takes every blank
\* that follows but leaves one piece to (.+), which matches no line break.
matchQuantityLine(entry) ==
    LET d == digitRun(entry)
        afterDigits == SubSeq(entry, d + 1, Len(entry))
        s == spaceRun(afterDigits)
        blanks == IF s = Len(afterDigits) THEN s - 1 ELSE s
        rest == SubSeq(afterDigits, blanks + 1, Len(afterDigits))
    IN  IF d >= 1 /\ blanks >= 1 /\ rest # <<>> /\ \A i \in 1..Len(rest) : rest[i] # "\n"
        THEN <<[digits |-> SubSeq(entry, 1, d), rest |-> rest]>>
        ELSE null

\* The (name, quantity) entries of the lines that match.
parseQuantityLines(lines) ==
    LET matches == [i \in 1..Len(lines) |-> matchQuantityLine(lines[i])]
        matched == SelectSeq(matches, LAMBDA m : m # null)
    IN  [i \in 1..Len(matched) |->
            [name |-> trimPieces(matched[i][1].rest),
             quantity |-> parseInt(matched[i][1].digits)]]

handleExport ==
    /\ libCall.fn = "handleExport"
    /\ libResult = null
    /\ libResult' = <<[text |-> handleExportText(libCall.cards), entries |-> null]>>
    /\ UNCHANGED libCall
    /\ UNCHANGED notLib

parseExported ==
    /\ libCall.fn = "handleExport"
    /\ libResult # null
    /\ libResult[1].entries = null
    /\ libResult' = <<[libResult[1] EXCEPT
                         !.entries = <<parseQuantityLines(splitLines(libResult[1].text))>>]>>
    /\ UNCHANGED libCall
    /\ UNCHANGED notLib

\* The collections of at most n cards (the name is the primary key).
Collections(n) ==
    {l \in ListsOver(ExportCards, n) :
        \A i, j \in 1..Len(l) : l[i].name = l[j].name => i = j}


(***************************************************************************)
(* The combo display's three groups.                                       *)
(***************************************************************************)
DetectedCombos ==
    [comboId : {"1529-2059"},
     cards : {<<"Thassa's Oracle", "Demonic Consultation">>,
              <<"thassa's oracle", "Sol Ring">>,
              <<"Sol Ring">>},
     isComplete : BOOLEAN]

BannedLists ==
    {<<>>, <<"SOL RING">>, <<"thassa's oracle">>, <<"Sol Ring", "Demonic Consultation">>,
     <<"Opt">>}

\* combo.cards.some(n => bannedSet.has(n))
hasExcludedCardExact(combo, bannedCards) ==
    LET bannedSet == {toLowerCase(bannedCards[i]) : i \in 1..Len(bannedCards)}
    IN  \E i \in 1..Len(combo.cards) : combo.cards[i] \in bannedSet

\* combo.cards.some(n => bannedSet.has(n.toLowerCase()))
hasExcludedCard(combo, bannedCards) ==
    LET bannedSet == {toLowerCase(bannedCards[i]) : i \in 1..Len(bannedCards)}
    IN  \E i \in 1..Len(combo.cards) : toLowerCase(combo.cards[i]) \in bannedSet

comboGroups(combos, bannedCards) ==
    [completeCombos |->
         SelectSeq(combos, LAMBDA c : c.isComplete /\ ~hasExcludedCard(c, bannedCards)),
     nearMisses |->
         SelectSeq(combos, LAMBDA c : ~c.isComplete /\ ~hasExcludedCard(c, bannedCards)),
     excludedCombos |->
         SelectSeq(combos, LAMBDA c : hasExcludedCard(c, bannedCards))]

ComboDisplay ==
    /\ libCall.fn = "ComboDisplay"
    /\ libResult = null
    /\ libResult' = <<comboGroups(libCall.combos, libCall.bannedCards)>>
    /\ UNCHANGED libCall
    /\ UNCHANGED notLib


(***************************************************************************)
(* detectArchetypes.  What the patterns and the regular expressions find   *)
(* in a commander's text, keywords and type line is the argument: a set    *)
(* of findings <<kind, subject>>.                                          *)
(***************************************************************************)
\* The keys of ARCHETYPE_KEYWORDS, in order; each has one pattern that is a
\* regular expression and one that is not.
ARCHETYPE_KEYWORDS ==
    <<"AGGRO", "TRIBAL", "VOLTRON", "SPELLSLINGER", "MIDRANGE", "TOKENS", "ARISTOCRATS",
      "GOODSTUFF", "LANDFALL">>

TRIBAL_TYPES == {"elf"}

Findings ==
    ({"text", "keyword", "includes"}
        \X {"TRIBAL", "VOLTRON", "SPELLSLINGER", "TOKENS", "ARISTOCRATS"})
    \cup ({"text", "keyword"} \X {"LANDFALL"})
    \cup {<<"text", "MIDRANGE">>}
    \cup ({"tribe in text", "tribe in type line"} \X TRIBAL_TYPES)
    \cup ({"found"} \X {"other ... you control", "legendary creature", "self-buff",
                        "cmc <= 4", "evasion", "whenever you cast, twice",
                        "token creation, twice", "sacrifice ability"})

\* The subsets of S with at most n elements.
RECURSIVE SubsetsUpTo(_, _)
SubsetsUpTo(S, n) ==
    IF n = 0 THEN {{}}
    ELSE LET smaller == SubsetsUpTo(S, n - 1)
         IN  smaller \cup {T \cup {x} : T \in smaller, x \in S}

points(found, finding, value) == IF finding \in found THEN value ELSE 0

\* (combinedText.match(tribeRegex) || []).length: the expression has no g
\* flag, so a match is the array of the one matched text.
tribeTextMatches(found, tribe) == points(found, <<"tribe in text", tribe>>, 1)

tribeTypeMatches(found, tribe) == points(found, <<"tribe in type line", tribe>>, 1)

tribalBonus(found) ==
    4 * Cardinality({tribe \in TRIBAL_TYPES :
                        \/ tribeTextMatches(found, tribe) >= 2
                        \/ /\ tribeTextMatches(found, tribe) >= 1
                           /\ tribeTypeMatches(found, tribe) >= 1})
    + points(found, <<"found", "other ... you control">>, 3)

voltronBonus(found) ==
    IF <<"found", "legendary creature">> \in found
    THEN points(found, <<"found", "self-buff">>, 3)
         + (IF <<"found", "cmc <= 4">> \in found /\ <<"found", "evasion">> \in found
            THEN 2 ELSE 0)
    ELSE 0

archetypeScore(archetype, found) ==
    points(found, <<"text", archetype>>, 2)
    + points(found, <<"keyword", archetype>>, 3)
    + points(found, <<"includes", archetype>>, 1)
    + (CASE archetype = "TRIBAL" -> tribalBonus(found)
         [] archetype = "VOLTRON" -> voltronBonus(found)
         [] archetype = "SPELLSLINGER" -> points(found, <<"found", "whenever you cast, twice">>, 3)
         [] archetype = "TOKENS" -> points(found, <<"found", "token creation, twice">>, 3)
         [] archetype = "ARISTOCRATS" -> points(found, <<"found", "sacrifice ability">>, 3)
         [] OTHER -> 0)

confidenceOf(score) == IF score >= 10 THEN "high" ELSE IF score >= 5 THEN "medium" ELSE "low"

\* The entries pushed by the loop over ARCHETYPE_KEYWORDS.
scoredArchetypes(found) ==
    LET scored == SelectSeq(ARCHETYPE_KEYWORDS,
                            LAMBDA a : /\ a \notin {"MIDRANGE", "GOODSTUFF"}
                                       /\ archetypeScore(a, found) > 0)
    IN  [i \in 1..Len(scored) |->
            [archetype |-> scored[i], score |-> archetypeScore(scored[i], found),
             confidence |-> confidenceOf(archetypeScore(scored[i], found))]]

\* scores.length === 0 || scores[0].score < 3
noMatches(scores) == Len(scores) = 0

noStrongMatches(scores) == Len(scores) = 0 \/ scores[1].score < 3

detectArchetypes(found) ==
    LET scores == sortDescending(scoredArchetypes(found), "score")
    IN  IF noStrongMatches(scores)
        THEN <<[archetype |-> "MIDRANGE", score |-> 1, confidence |-> "low"]>> \o scores
        ELSE scores

detectArchetypesCall ==
    /\ libCall.fn = "detectArchetypes"
    /\ libResult = null
    /\ libResult' = <<detectArchetypes(libCall.found)>>
    /\ UNCHANGED libCall
    /\ UNCHANGED notLib


buildQueriesFromThemesCall ==
    /\ libCall.fn = "buildQueriesFromThemes"
    /\ libResult = null
    /\ libResult' = <<buildQueriesFromThemes(libCall.themeNames)>>
    /\ UNCHANGED libCall
    /\ UNCHANGED notLib

LibCalls ==
    {[fn |-> "buildQueriesFromThemes", themeNames |-> l] : l \in ListsOver(ThemeNames, MaxThemes)}
    \cup {[fn |-> "handleExport", cards |-> l] : l \in Collections(MaxEntries)}
    \cup {[fn |-> "ComboDisplay", combos |-> l, bannedCards |-> b] :
             l \in ListsOver(DetectedCombos, MaxCombos), b \in BannedLists}
    \cup {[fn |-> "detectArchetypes", found |-> f] : f \in SubsetsUpTo(Findings, MaxFindings)}

LibInit ==
    /\ libCall \in LibCalls
    /\ libResult = null
    /\ TaggerIdle /\ tagRepoUrl = ""
    /\ CollectionIdle
    /\ CardsIdle /\ cardRequests = 0
    /\ CustomIdle
    /\ ClientIdle

LibNext ==
    \/ buildQueriesFromThemesCall
    \/ handleExport
    \/ parseExported
    \/ ComboDisplay
    \/ detectArchetypesCall

SpecLib == LibInit /\ [][LibNext]_vars

(***************************************************************************)
(* C15: buildQueriesFromThemes returns the keywords of the names found in  *)
(* the registry (looked up ignoring case and surrounding whitespace),      *)
(* without duplicates, and the OR-join of their parenthesised primary      *)
(* queries in input order; unknown names contribute nothing, and with no   *)
(* known name the result is '', no keywords and 't:creature'.              *)
(***************************************************************************)
\* The registry key the name stands for, if any.
keysOf(themeName) ==
    {key \in DOMAIN THEME_QUERY_MAP : toLowerCase(trim(themeName)) = key}

RECURSIVE statedSynergy(_)
statedSynergy(themeNames) ==
    IF themeNames = <<>> THEN <<>>
    ELSE LET keys == keysOf(Head(themeNames))
         IN  (IF keys = {} THEN <<>>
              ELSE <<"(" \o THEME_QUERY_MAP[CHOOSE key \in keys : TRUE].primary \o ")">>)
             \o statedSynergy(Tail(themeNames))

RECURSIVE orJoined(_)
orJoined(parts) ==
    IF parts = <<>> THEN ""
    ELSE LET front == orJoined(SubSeq(parts, 1, Len(parts) - 1))
         IN  IF front = "" THEN parts[Len(parts)]
             ELSE front \o " OR " \o parts[Len(parts)]

statedKeywords(themeNames) ==
    UNION {{THEME_QUERY_MAP[key].keywords[j] : j \in 1..Len(THEME_QUERY_MAP[key].keywords)} :
              key \in UNION {keysOf(themeNames[i]) : i \in 1..Len(themeNames)}}

pairsOf(list) == {<<list[i].name, list[i].quantity>> : i \in 1..Len(list)}

C17_ExportRoundTrips ==
    (libCall.fn = "handleExport" /\ libResult # null /\ libResult[1].entries # null) =>
        /\ pairsOf(libResult[1].entries[1]) = pairsOf(libCall.cards)
        /\ handleExportText(libResult[1].entries[1]) = libResult[1].text

\* A name that begins with digits after a quantity of two digits, and a
\* name with a comma amid digits.
C17_Witness ==
    /\ libCall.fn = "handleExport"
    /\ libCall.cards =
           <<[name |-> <<"1", "9", "9", "6", " ", "World", " ", "Champion">>, quantity |-> 20],
             [name |-> <<"Borrowing", " ", "1", "0", "0", ",", "0", "0", "0", " ", "Arrows">>,
              quantity |-> 107]>>
    /\ libResult # null
    /\ libResult[1].entries # null
    /\ Len(libResult[1].entries[1]) = 2

(***************************************************************************)
(* C18: the combo display's three groups partition the combo list:         *)
(* excluded = the combos with a card whose name is banned (compared        *)
(* case-insensitively), complete = the others with isComplete, near-miss   *)
(* = the others without; every combo is in exactly one group, none is      *)
(* dropped.                                                                *)
(***************************************************************************)
occurrences(list, x) == Cardinality({i \in 1..Len(list) : list[i] = x})

isBanned(combo, bannedCards) ==
    \E i \in 1..Len(combo.cards), j \in 1..Len(bannedCards) :
        toLowerCase(combo.cards[i]) = toLowerCase(bannedCards[j])

C18_GroupsPartition ==
    (libCall.fn = "ComboDisplay" /\ libResult # null) =>
        LET groups == libResult[1]
            banned == libCall.bannedCards
        IN  /\ \A c \in DetectedCombos :
                  /\ occurrences(groups.excludedCombos, c) =
                         IF isBanned(c, banned) THEN occurrences(libCall.combos, c) ELSE 0
                  /\ occurrences(groups.completeCombos, c) =
                         IF ~isBanned(c, banned) /\ c.isComplete
                         THEN occurrences(libCall.combos, c) ELSE 0
                  /\ occurrences(groups.nearMisses, c) =
                         IF ~isBanned(c, banned) /\ ~c.isComplete
                         THEN occurrences(libCall.combos, c) ELSE 0
            /\ Len(groups.excludedCombos) + Len(groups.completeCombos)
                   + Len(groups.nearMisses) = Len(libCall.combos)

\* A complete combo is excluded by a ban spelled in another case, next to a
\* near miss that is not.
C18_Witness ==
    /\ libCall.fn = "ComboDisplay"
    /\ libCall.bannedCards = <<"SOL RING">>
    /\ libResult # null
    /\ Len(libResult[1].excludedCombos) = 1
    /\ libResult[1].excludedCombos[1].isComplete
    /\ Len(libResult[1].nearMisses) = 1

(***************************************************************************)
(* C19, as stated: detectArchetypes returns a non-empty list ordered by    *)
(* non-increasing score from first to last element, the case where the     *)
(* MIDRANGE default is added included.                                     *)
(***************************************************************************)
nonIncreasing(list) == \A i \in 1..(Len(list) - 1) : list[i].score >= list[i + 1].score

C19_RankedByScore ==
    (libCall.fn = "detectArchetypes" /\ libResult # null) =>
        /\ libResult[1] # <<>>
        /\ nonIncreasing(libResult[1])

(***************************************************************************)
(* C19, amended: detectArchetypes returns a non-empty list.  When some     *)
(* archetype scored at least 3 the list is ordered by non-increasing       *)
(* score; otherwise the MIDRANGE default, with score 1, is the first       *)
(* element and the archetypes that scored 1 or 2 follow it in              *)
(* non-increasing score order.                                             *)
(***************************************************************************)
someScoredAtLeast(found, n) ==
    \E i \in 1..Len(ARCHETYPE_KEYWORDS) :
        /\ ARCHETYPE_KEYWORDS[i] \notin {"MIDRANGE", "GOODSTUFF"}
        /\ archetypeScore(ARCHETYPE_KEYWORDS[i], found) >= n

C19_DefaultFirstThenRanked ==
    (libCall.fn = "detectArchetypes" /\ libResult # null) =>
        LET result == libResult[1]
        IN  /\ result # <<>>
            /\ IF someScoredAtLeast(libCall.found, 3)
               THEN /\ nonIncreasing(result)
                    /\ \A i \in 1..Len(result) : result[i].archetype # "MIDRANGE"
               ELSE /\ result[1].archetype = "MIDRANGE"
                    /\ result[1].score = 1
                    /\ nonIncreasing(Tail(result))
                    /\ \A i \in 2..Len(result) :
                          result[i].archetype # "MIDRANGE" /\ result[i].score \in {1, 2}

\* The default stands ahead of an archetype that scored 2 and one that scored 1.
C19_Witness ==
    /\ libCall.fn = "detectArchetypes"
    /\ libResult # null
    /\ Len(libResult[1]) = 3
    /\ libResult[1][1].archetype = "MIDRANGE"
    /\ libResult[1][2].score = 2
    /\ libResult[1][3].score = 1

(***************************************************************************)
(* The collection database: dbCards maps each stored name (the primary     *)
(* key) to its quantity; dbResult is what the last operation returned.     *)
(* A name is the sequence of its pieces, the separator " // " of a         *)
(* double-faced name being a piece of its own.                             *)
(***************************************************************************)
CollectionNames ==
    {<<"Sol Ring">>,
     <<"Fire">>,
     <<"Fire", " // ", "Ice">>,
     <<"Who", " // ", "What", " // ", "When">>,
     <<"Research//Development">>}

Quantities == {-1, 0, 1, 2}

\* str.includes(separator)
neverIncludes(str, separator) == FALSE

includes(str, separator) == \E i \in 1..Len(str) : str[i] = separator

\* str.split(separator)[0]
RECURSIVE firstPart(_, _)
firstPart(str, separator) ==
    IF str = <<>> \/ Head(str) = separator THEN <<>>
    ELSE <<Head(str)>> \o firstPart(Tail(str), separator)

\* The field of the batch entry taken as it is.
overwrite(value, stored) == value

\* card.typeLine ?? existing.typeLine: typeLine stands for the six metadata
\* fields, null for a field that is missing.
coalesce(value, stored) == IF value = null THEN stored ELSE value

\* One iteration of bulkImport's loop: acc holds the rows of the table and
\* the two counts.
upsert(acc, card) ==
    IF card.name \in DOMAIN acc.cards
    THEN LET existing == acc.cards[card.name]
         IN  [acc EXCEPT !.cards[card.name] =
                             [quantity |-> existing.quantity + card.quantity,
                              addedAt |-> now,
                              typeLine |-> coalesce(card.typeLine, existing.typeLine)],
                         !.updated = @ + 1]
    ELSE [acc EXCEPT !.cards = [n \in DOMAIN acc.cards \cup {card.name} |->
                                   IF n = card.name
                                   THEN [quantity |-> card.quantity, addedAt |-> now,
                                         typeLine |-> card.typeLine]
                                   ELSE acc.cards[n]],
                     !.added = @ + 1]

RECURSIVE importAll(_, _)
importAll(acc, list) ==
    IF list = <<>> THEN acc
    ELSE importAll(upsert(acc, Head(list)), Tail(list))

\* The table after the transaction of bulkImport, and the counts returned.
bulkImportResult(cards, list) == importAll([cards |-> cards, added |-> 0, updated |-> 0], list)

deleteRow(cards, name) == [n \in DOMAIN cards \ {name} |-> cards[n]]

ImportCards == [name : CollectionNames, quantity : {1}, typeLine : {null}]

bulkImport(list) ==
    /\ LET result == bulkImportResult(dbCards, list)
       IN  /\ \A n \in DOMAIN result.cards : result.cards[n].quantity <= MaxQuantity
           /\ dbCards' = result.cards
           /\ dbResult' = [op |-> "bulkImport", added |-> result.added,
                           updated |-> result.updated]
    /\ UNCHANGED notCollection

\* Tables and batches bulkImport is applied to: rows stored at an earlier
\* time, with and without metadata.
BatchNames == {<<"Sol Ring">>, <<"Fire", " // ", "Ice">>}

StoredRows == [quantity : 1..MaxQuantity, addedAt : {0}, typeLine : {null, <<"Artifact">>}]

StoredTables == UNION {[names -> StoredRows] : names \in SUBSET BatchNames}

BatchCards == [name : BatchNames, quantity : {1, 2}, typeLine : {null, <<"Instant">>}]

\* bulkImport applied to a table: one transaction, so the table is read
\* before it and after it only.
bulkImportCall ==
    /\ libCall.fn = "bulkImport"
    /\ libResult = null
    /\ libResult' = <<bulkImportResult(libCall.stored, libCall.cards)>>
    /\ UNCHANGED libCall
    /\ UNCHANGED notLib

removeCard(name) ==
    /\ dbCards' = deleteRow(dbCards, name)
    /\ dbResult' = [op |-> "removeCard"]
    /\ UNCHANGED notCollection

\* quantity < 0
negative(quantity) == quantity < 0

\* quantity <= 0
notPositive(quantity) == quantity <= 0

\* db.cards.update changes the row with the key and does nothing without one.
updateQuantity(name, quantity) ==
    /\ dbCards' = IF notPositive(quantity) THEN deleteRow(dbCards, name)
                  ELSE IF name \in DOMAIN dbCards
                  THEN [dbCards EXCEPT ![name].quantity = quantity]
                  ELSE dbCards
    /\ dbResult' = [op |-> "updateQuantity"]
    /\ UNCHANGED notCollection

clearCollection ==
    /\ dbCards' = <<>>
    /\ dbResult' = [op |-> "clearCollection"]
    /\ UNCHANGED notCollection

\* The names of the set built from the rows read by toArray().
collectionNameSet(allCards) ==
    DOMAIN allCards
    \cup {firstPart(name, " // ") : name \in {n \in DOMAIN allCards : includes(n, " // ")}}

getCollectionNameSet ==
    /\ dbResult' = [op |-> "getCollectionNameSet", allCards |-> dbCards,
                    names |-> collectionNameSet(dbCards)]
    /\ UNCHANGED dbCards
    /\ UNCHANGED notCollection

CollectionInit ==
    /\ CollectionIdle
    /\ TaggerIdle /\ tagRepoUrl = ""
    /\ LibIdle
    /\ CardsIdle /\ cardRequests = 0
    /\ CustomIdle
    /\ ClientIdle

CollectionNext ==
    \/ \E list \in ListsOver(ImportCards, MaxImport) \ {<<>>} : bulkImport(list)
    \/ \E name \in CollectionNames : removeCard(name)
    \/ \E name \in CollectionNames, quantity \in Quantities : updateQuantity(name, quantity)
    \/ clearCollection
    \/ getCollectionNameSet

SpecCollection == CollectionInit /\ [][CollectionNext]_vars

(***************************************************************************)
(* C16: getCollectionNameSet returns exactly: the full name of every       *)
(* stored card and, for a name containing ' // ', also its front-face      *)
(* name (what precedes the first ' // '); no other name.                   *)
(***************************************************************************)
isFrontFaceOf(front, name) ==
    \E i \in 1..Len(name) :
        /\ name[i] = " // "
        /\ \A j \in 1..(i - 1) : name[j] # " // "
        /\ front = SubSeq(name, 1, i - 1)

C16_NameSet ==
    dbResult.op = "getCollectionNameSet" =>
        \A name \in dbResult.names \cup CollectionNames
                    \cup {SubSeq(n, 1, i) : n \in CollectionNames, i \in 0..1} :
            name \in dbResult.names <=>
                \/ name \in DOMAIN dbResult.allCards
                \/ \E stored \in DOMAIN dbResult.allCards : isFrontFaceOf(name, stored)

\* A double-faced card and a card named like its front face are both stored,
\* with a card whose name has slashes but no separator.
C16_Witness ==
    /\ dbResult.op = "getCollectionNameSet"
    /\ DOMAIN dbResult.allCards =
           {<<"Fire">>, <<"Fire", " // ", "Ice">>, <<"Who", " // ", "What", " // ", "When">>,
            <<"Research//Development">>}
    /\ Cardinality(dbResult.names) = 5

(***************************************************************************)
(* The card cache of the Scryfall client: cardCache maps a card name to    *)
(* the cached card; landCalls are the calls of prefetchBasicLands and      *)
(* getCardByName in progress.                                              *)
(***************************************************************************)
basicLands == {"Plains", "Island", "Swamp", "Mountain", "Forest"}

OtherCards == {"Sol Ring"}

\* A card as the provider returns it; id tells one printing from another.
cardOf(name, id) == [name |-> name, id |-> id]

\* getCachedCard(name): the cached card, or null for undefined
getCachedCard(name) == IF name \in DOMAIN cardCache THEN <<cardCache[name]>> ELSE null

\* cardCache.set(card.name, card) for every card of the set
cacheCards(cache, cards) ==
    [n \in DOMAIN cache \cup {card.name : card \in cards} |->
        IF \E card \in cards : card.name = n
        THEN CHOOSE card \in cards : card.name = n
        ELSE cache[n]]

\* basicLands.filter(name => !cardCache.has(name))
allLands(cache) == basicLands

uncachedLands(cache) == basicLands \ DOMAIN cache

\* prefetchBasicLands up to the first await: nothing to do, or
\* getCardsByNames(uncached) up to rateLimiter.throttle().
prefetchBasicLands(c) ==
    /\ landCalls[c].pc = "idle"
    /\ LET uncached == uncachedLands(cardCache)
       IN  landCalls' = [landCalls EXCEPT ![c] =
               IF uncached = {}
               THEN [op |-> "prefetchBasicLands", pc |-> "done", names |-> {},
                     result |-> "void"]
               ELSE [op |-> "prefetchBasicLands", pc |-> "throttle",
                     names |-> uncached \ DOMAIN cardCache, result |-> "none"]]
    /\ UNCHANGED <<cardCache, cardRequests>>
    /\ UNCHANGED <<batchCall, notCards>>

\* getCardsByNames: after the throttle, the batch is posted.
collectionRequest(c) ==
    /\ landCalls[c].pc = "throttle"
    /\ cardRequests < MaxCardRequests
    /\ cardRequests' = cardRequests + 1
    /\ landCalls' = [landCalls EXCEPT ![c].pc = "fetching"]
    /\ UNCHANGED cardCache
    /\ UNCHANGED <<batchCall, notCards>>

\* What the collection endpoint may answer to a batch.
CollectionAnswers(batch) ==
    {[status |-> 200, found |-> f] :
        f \in {batch, {}, batch \ {"Swamp"}, batch \cap {"Plains"}}}
    \cup {[status |-> 429, found |-> {}], [status |-> 500, found |-> {}],
          [status |-> 0, found |-> {}]}

\* getCardsByNames: the answer to the batch (status 0: fetch rejected).
collectionResponse(c, answer) ==
    /\ landCalls[c].op = "prefetchBasicLands"
    /\ landCalls[c].pc = "fetching"
    /\ IF answer.status = 200
       THEN /\ cardCache' = cacheCards(cardCache, {cardOf(n, 1) : n \in answer.found})
            /\ landCalls' = [landCalls EXCEPT ![c].pc = "done", ![c].result = "void"]
       ELSE IF answer.status = 429
       THEN /\ landCalls' = [landCalls EXCEPT ![c].pc = "throttle"]
            /\ UNCHANGED cardCache
       ELSE /\ landCalls' = [landCalls EXCEPT ![c].pc = "done", ![c].result = "void"]
            /\ UNCHANGED cardCache
    /\ UNCHANGED cardRequests
    /\ UNCHANGED <<batchCall, notCards>>

\* getCardByName up to the request.
getCardByName(c, name) ==
    /\ landCalls[c].pc = "idle"
    /\ IF name \in DOMAIN cardCache
       THEN /\ landCalls' = [landCalls EXCEPT ![c] =
                   [op |-> "getCardByName", pc |-> "done", names |-> {name},
                    result |-> "card"]]
            /\ UNCHANGED cardRequests
       ELSE /\ cardRequests < MaxCardRequests
            /\ cardRequests' = cardRequests + 1
            /\ landCalls' = [landCalls EXCEPT ![c] =
                   [op |-> "getCardByName", pc |-> "fetching", names |-> {name},
                    result |-> "none"]]
    /\ UNCHANGED cardCache
    /\ UNCHANGED <<batchCall, notCards>>

\* getCardByName: the answer to /cards/named; found is the card, or {} when
\* the request failed.
getCardByNameResponse(c, found) ==
    /\ landCalls[c].op = "getCardByName"
    /\ landCalls[c].pc = "fetching"
    /\ cardCache' = cacheCards(cardCache, found)
    /\ landCalls' = [landCalls EXCEPT ![c].pc = "done",
                                      ![c].result = IF found = {} THEN "thrown" ELSE "card"]
    /\ UNCHANGED cardRequests
    /\ UNCHANGED <<batchCall, notCards>>

\* The caller goes on; it may call again.
landCallReturns(c) ==
    /\ landCalls[c].pc = "done"
    /\ landCalls' = [landCalls EXCEPT ![c] = idleLandCall]
    /\ UNCHANGED <<cardCache, cardRequests>>
    /\ UNCHANGED <<batchCall, notCards>>

CardsInit ==
    /\ CardsIdle /\ cardRequests = 0
    /\ CustomIdle
    /\ TaggerIdle /\ tagRepoUrl = ""
    /\ LibIdle
    /\ CollectionIdle
    /\ ClientIdle

CardsNext ==
    \E c \in LandCallers :
        \/ prefetchBasicLands(c)
        \/ collectionRequest(c)
        \/ \E answer \in CollectionAnswers(landCalls[c].names) : collectionResponse(c, answer)
        \/ \E name \in {"Forest"} \cup OtherCards : getCardByName(c, name)
        \/ \E name \in landCalls[c].names, id \in {1, 2} :
              getCardByNameResponse(c, {cardOf(name, id)})
        \/ getCardByNameResponse(c, {})
        \/ landCallReturns(c)

SpecCards == CardsInit /\ [][CardsNext]_vars

(***************************************************************************)
(* C20: once the five basic lands are cached (prefetchBasicLands has       *)
(* completed successfully), getCachedCard returns a card for each of them  *)
(* in every later state, whatever runs; and every prefetchBasicLands call  *)
(* made from then on completes at once without a network request.          *)
(***************************************************************************)
basicsCached == \A name \in basicLands : getCachedCard(name) # null

prefetchCalled(c) ==
    /\ landCalls[c].pc = "idle"
    /\ landCalls'[c].op = "prefetchBasicLands"

landsStayCached ==
    basicsCached =>
        /\ basicsCached'
        /\ \A c \in LandCallers :
              prefetchCalled(c) =>
                  /\ landCalls'[c].pc = "done"
                  /\ cardRequests' = cardRequests

C20_BasicLandsStayCached == [][landsStayCached]_vars

\* One call has fetched the five lands, a later one found them cached, and
\* a lookup by name has since replaced the Forest by another printing.
C20_Witness ==
    /\ basicsCached
    /\ landCalls[1].op = "prefetchBasicLands" /\ landCalls[1].pc = "done"
    /\ landCalls[1].names = basicLands \ {"Forest"}
    /\ landCalls[2].op = "prefetchBasicLands" /\ landCalls[2].pc = "done"
    /\ landCalls[2].names = {}
    /\ cardCache["Forest"].id = 2
    /\ cardRequests = 2

(***************************************************************************)
(* getCardsByNames: batchCall is the call in progress; its field           *)
(* `available` notes, for the claims, every requested name with the card   *)
(* the cache or the server had for it.                                     *)
(***************************************************************************)
COLLECTION_BATCH_SIZE == 75

\* Names nobody has a card for.
UnknownNames == {"Nonexistent Card"}

\* card.name of the card the server finds for an identifier: the lookup
\* ignores case and accepts the front face of a double-faced card.
canonicalName(name) ==
    CASE name = "sol ring" -> "Sol Ring"
      [] name = "Fire" -> "Fire // Ice"
      [] OTHER -> name

serverCard(name) == cardOf(canonicalName(name), 1)

\* n further names, each its own canonical name.
manyNames(n) == [j \in 1..n |-> "Card " \o ToString(j)]

NameLists ==
    {<<>>, <<"Sol Ring">>, <<"sol ring">>, <<"Fire", "Sol Ring">>,
     <<"Sol Ring", "Nonexistent Card", "Fire // Ice">>}
    \cup {<<"sol ring">> \o manyNames(COLLECTION_BATCH_SIZE * b) : b \in 1..(MaxBatches - 1)}
    \cup {manyNames(COLLECTION_BATCH_SIZE * b) : b \in 1..MaxBatches}

\* result.set(key, card) for every pair <<key, card>> of the set
setAll(map, pairs) ==
    [k \in DOMAIN map \cup {pr[1] : pr \in pairs} |->
        IF \E pr \in pairs : pr[1] = k
        THEN (CHOOSE pr \in pairs : pr[1] = k)[2]
        ELSE map[k]]

\* uncachedNames.slice(i, i + COLLECTION_BATCH_SIZE)
batchAt(uncachedNames, i) ==
    SubSeq(uncachedNames, i + 1,
           IF i + COLLECTION_BATCH_SIZE < Len(uncachedNames)
           THEN i + COLLECTION_BATCH_SIZE ELSE Len(uncachedNames))

\* The state after the loop's i += COLLECTION_BATCH_SIZE and test.
nextBatch(call) ==
    IF call.i + COLLECTION_BATCH_SIZE < Len(call.uncachedNames)
    THEN [call EXCEPT !.i = @ + COLLECTION_BATCH_SIZE, !.pc = "throttle"]
    ELSE [call EXCEPT !.i = @ + COLLECTION_BATCH_SIZE, !.pc = "done"]

\* result.set(name, cached) / result.set(card.name, card)
keyOfRequest(name, card) == name

keyOfCard(name, card) == card.name

\* getCardsByNames up to the first await.
getCardsByNames(names) ==
    /\ batchCall.pc = "idle"
    /\ LET cachedNames == {names[j] : j \in 1..Len(names)} \cap DOMAIN cardCache
           uncachedNames == SelectSeq(names, LAMBDA n : n \notin DOMAIN cardCache)
           result == setAll(<<>>, {<<keyOfRequest(n, cardCache[n]), cardCache[n]>> :
                                      n \in cachedNames})
       IN  batchCall' =
               [pc |-> IF uncachedNames = <<>> THEN "done" ELSE "throttle",
                names |-> names, uncachedNames |-> uncachedNames, i |-> 0,
                result |-> result,
                available |-> {<<n, cardCache[n]>> : n \in cachedNames},
                retried |-> FALSE]
    /\ UNCHANGED <<cardCache, landCalls, cardRequests>>
    /\ UNCHANGED notCards

\* rateLimiter.throttle() is over and the batch is posted.
batchPosted ==
    /\ batchCall.pc = "throttle"
    /\ batchCall' = [batchCall EXCEPT !.pc = "fetching"]
    /\ UNCHANGED <<cardCache, landCalls, cardRequests>>
    /\ UNCHANGED notCards

\* What the server may answer to a batch: status 200 with the cards of some
\* of the identifiers, 429, another error status, or no answer (status 0).
BatchAnswers(batch) ==
    LET findable == SelectSeq(batch, LAMBDA n : n \notin UnknownNames)
    IN  {[status |-> 200, found |-> f] :
            f \in {{findable[j] : j \in 1..Len(findable)}, {},
                   {findable[j] : j \in 1..(IF findable = <<>> THEN 0 ELSE 1)}}}
        \cup {[status |-> 429, found |-> {}], [status |-> 500, found |-> {}],
              [status |-> 0, found |-> {}]}

batchAnswered(answer) ==
    /\ batchCall.pc = "fetching"
    /\ IF answer.status = 200
       THEN LET cards == {serverCard(n) : n \in answer.found}
            IN  /\ cardCache' = cacheCards(cardCache, cards)
                /\ batchCall' =
                       [nextBatch(batchCall) EXCEPT
                           !.result = setAll(@, {<<keyOfCard(n, serverCard(n)), serverCard(n)>> :
                                                    n \in answer.found}),
                           !.available = @ \cup {<<n, serverCard(n)>> : n \in answer.found}]
       ELSE IF answer.status = 429
       THEN /\ batchCall' = [batchCall EXCEPT !.pc = "backoff"]
            /\ UNCHANGED cardCache
       ELSE /\ batchCall' = nextBatch(batchCall)
            /\ UNCHANGED cardCache
    /\ UNCHANGED <<landCalls, cardRequests>>
    /\ UNCHANGED notCards

\* The second of waiting is over: i -= COLLECTION_BATCH_SIZE; continue.
batchRetried ==
    /\ batchCall.pc = "backoff"
    /\ batchCall' = [batchCall EXCEPT !.pc = "throttle", !.retried = TRUE]
    /\ UNCHANGED <<cardCache, landCalls, cardRequests>>
    /\ UNCHANGED notCards

\* What earlier calls may have left in the cache.
CacheSeeds ==
    {<<>>,
     cacheCards(<<>>, {cardOf("Sol Ring", 2)}),
     cacheCards(<<>>, {cardOf("Sol Ring", 2), cardOf("Fire // Ice", 2), cardOf("Card 1", 2)})}

BatchInit ==
    /\ cardCache \in CacheSeeds
    /\ landCalls = [c \in LandCallers |-> idleLandCall]
    /\ batchCall = idleBatchCall
    /\ cardRequests = 0
    /\ CustomIdle
    /\ TaggerIdle /\ tagRepoUrl = ""
    /\ LibIdle
    /\ CollectionIdle
    /\ ClientIdle

BatchNext ==
    \/ \E names \in NameLists : getCardsByNames(names)
    \/ batchPosted
    \/ \E answer \in BatchAnswers(batchAt(batchCall.uncachedNames, batchCall.i)) :
          batchAnswered(answer)
    \/ batchRetried

SpecBatch == BatchInit /\ [][BatchNext]_vars

\* Every step of a call is taken in the end, and every request is answered.
SpecBatchLive ==
    /\ SpecBatch
    /\ WF_vars(batchPosted)
    /\ WF_vars(\E answer \in BatchAnswers(batchAt(batchCall.uncachedNames, batchCall.i)) :
                  batchAnswered(answer))
    /\ WF_vars(batchRetried)

(***************************************************************************)
(* C21: in the map getCardsByNames returns, every requested name for which *)
(* a card was available (in the cache, or returned by the server for that  *)
(* identifier) maps to that card.                                          *)
(***************************************************************************)
C21_RequestedNameFindsCard ==
    batchCall.pc = "done" =>
        \A pr \in batchCall.available :
            pr[1] \in DOMAIN batchCall.result /\ batchCall.result[pr[1]] = pr[2]

(***************************************************************************)
(* C22: getCardsByNames always eventually returns, whatever the server     *)
(* answers to its batch requests.                                          *)
(***************************************************************************)
C22_AlwaysReturns == [](batchCall.pc # "idle" => <>(batchCall.pc = "done"))

(***************************************************************************)
(* The commander fetchers called with budget options and bracket levels.   *)
(* The provider serves a different page for every combination; the average *)
(* price of a page tells which combination it was served for.              *)
(***************************************************************************)
BudgetBrackets == {<<"any", 0>>, <<"budget", 0>>, <<"any", 3>>}

priceOf(budgetOption, bracketLevel) ==
    CASE budgetOption = "budget" -> 100
      [] bracketLevel = 3 -> 700
      [] OTHER -> 400

\* The page behind the endpoint a call with this budget and bracket asks for.
pricedPage(task) == [firstPage EXCEPT !.avg_price = priceOf(task.budget, task.bracket)]

BudgetOutcomes(task) ==
    {[status |-> "ok", body |-> pricedPage(task)], [status |-> "error", body |-> emptyBody]}

BudgetInit == PartnerInit

\* Caller 1 fetches the partner pair, any caller a single commander, each
\* under any of the combinations; callers run concurrently.
BudgetNext ==
    \/ \E bb \in BudgetBrackets :
          fetchPartnerCommanderData(1, "Tymna the Weaver", "Kraum, Ludevic's Opus",
                                    bb[1], bb[2])
    \/ \E outcome \in BudgetOutcomes(tasks[1]) :
          fetchPartnerCommanderDataSlugResponse(1, outcome)
    \/ \E i \in {1, 2} : \E outcome \in BudgetOutcomes(tasks[1]) :
          fetchPartnerCommanderDataIndividualResponse(1, i, outcome)
    \/ \E t \in TaskIds, bb \in BudgetBrackets :
          fetchCommanderData(t, "Tymna the Weaver", bb[1], bb[2])
    \/ \E t \in TaskIds : \E outcome \in BudgetOutcomes(tasks[t]) :
          fetchCommanderDataResponse(t, outcome)
    \/ \E t \in TaskIds : Return(t)

SpecBudget == BudgetInit /\ [][BudgetNext]_vars

\* The call of caller t returned data it found in the cache.
servedFromCache(t) ==
    /\ tasks[t].op \in {"fetchCommanderData", "fetchPartnerCommanderData"}
    /\ tasks[t].pc = "done"
    /\ tasks[t].kind = "data"
    /\ tasks[t].sub[1].st = "cached"

(***************************************************************************)
(* C23: a value that fetchPartnerCommanderData or fetchCommanderData        *)
(* returns from the cache for budget option b and bracket level k was      *)
(* produced by fetches with the same b and k: it carries the price of the  *)
(* pages served for that combination.                                      *)
(***************************************************************************)
C23_CachedValueOfSameBudgetAndBracket ==
    \A t \in TaskIds :
        servedFromCache(t) =>
            statsOf(heap, tasks[t].data).avgPrice = priceOf(tasks[t].budget, tasks[t].bracket)

(***************************************************************************)
(* Concurrent calls of fetchCommanderData for one cache key.               *)
(***************************************************************************)
\* The callers of fetchCommanderData whose request for the key is in flight.
requestingIn(calls_, key) ==
    {t \in TaskIds : /\ calls_[t].op = "fetchCommanderData"
                     /\ calls_[t].pc = "fetching"
                     /\ calls_[t].sub[1].key = key}

requesting(key) == requestingIn(tasks, key)

CacheKeys == {tasks[t].sub[1].key : t \in TaskIds} \ {""}

callsFetchCommanderData(t) ==
    tasks[t].pc = "idle" /\ tasks'[t].op = "fetchCommanderData"

typeCategories(tag) == categoriesOfTag(tag) \ {"allNonLand"}

namesOf(list) == {list[i].name : i \in 1..Len(list)}

(***************************************************************************)
(* C25: every card name of a type-tagged raw list (creatures, ...,         *)
(* utilitylands/lands) occurs in the corresponding category list returned  *)
(* by parseCardlists, whatever the order of the raw lists and whether or   *)
(* not the name also occurs in a generic list.                             *)
(***************************************************************************)
C25_TypedNameInCategory ==
    parsePc # "build" =>
        \A l \in 1..Len(rawCardLists) :
            \A k \in typeCategories(rawCardLists[l].tag) :
                namesOf(rawCardLists[l].cardviews) \subseteq namesOf(cardlists[k])

(***************************************************************************)
(* The banned list and the must-include list of the customization: the     *)
(* handlers of BannedCards and of ComboDisplay, each a read of the store's  *)
(* lists and one updateCustomization.                                      *)
(***************************************************************************)
ListNames == {"Sol Ring", "Opt", "Demonic Consultation"}

\* Lines a pasted list is made of: the pieces are digits, blanks, "x", the
\* comment mark and card names.
ImportLines ==
    {<<" ", "Opt", " ">>, <<"1", " ", "Sol Ring", " ", ",", "2", "x", "Opt">>,
     <<"//", " ", "Demonic Consultation">>, <<"3">>}

RECURSIVE joinPieces(_, _)
joinPieces(lines, separator) ==
    IF lines = <<>> THEN <<>>
    ELSE IF Len(lines) = 1 THEN lines[1]
    ELSE lines[1] \o <<separator>> \o joinPieces(Tail(lines), separator)

ImportTexts ==
    {joinPieces(lines, "\n") : lines \in UNION {[1..n -> ImportLines] : n \in 1..MaxLines}}

\* importText.split(/[\n,]/)
RECURSIVE splitList(_)
splitList(text) ==
    IF \A i \in 1..Len(text) : text[i] \notin {"\n", ","} THEN <<text>>
    ELSE LET i == CHOOSE k \in 1..Len(text) :
                      text[k] \in {"\n", ","} /\ \A j \in 1..(k - 1) : text[j] \notin {"\n", ","}
         IN  <<SubSeq(text, 1, i - 1)>> \o splitList(SubSeq(text, i + 1, Len(text)))

\* .map(line => line.trim()).filter(line => line && !line.startsWith('//'))
RECURSIVE cardLines(_)
cardLines(lines) ==
    IF lines = <<>> THEN <<>>
    ELSE LET line == trimPieces(Head(lines))
         IN  (IF line # <<>> /\ Head(line) # "//" THEN <<line>> ELSE <<>>)
             \o cardLines(Tail(lines))

\* line.replace(/^\d+x?\s*/i, '').trim()
stripQuantity(line) ==
    LET d == digitRun(line)
        afterDigits == SubSeq(line, d + 1, Len(line))
        afterX == IF afterDigits # <<>> /\ Head(afterDigits) \in {"x", "X"}
                  THEN Tail(afterDigits) ELSE afterDigits
    IN  trimPieces(IF d = 0 THEN line ELSE trimStart(afterX))

\* The test of the import loop without its look at the names already taken
\* from the text.
notYetBanned(bannedCards, newCards, cardName) ==
    /\ cardName # ""
    /\ ~includes(bannedCards, cardName)

\* cardName && !bannedCards.includes(cardName) && !newCards.includes(cardName)
notYetListed(bannedCards, newCards, cardName) ==
    /\ cardName # ""
    /\ ~includes(bannedCards, cardName)
    /\ ~includes(newCards, cardName)

RECURSIVE collectNewCards(_, _, _)
collectNewCards(bannedCards, newCards, lines) ==
    IF lines = <<>> THEN newCards
    ELSE LET cardName == join(stripQuantity(Head(lines)), "")
         IN  collectNewCards(bannedCards,
                             IF notYetListed(bannedCards, newCards, cardName)
                             THEN Append(newCards, cardName) ELSE newCards,
                             Tail(lines))

\* The names handleImportList takes from the text, one per card line.
importedNames(text) ==
    LET lines == cardLines(splitList(text))
    IN  [i \in 1..Len(lines) |-> join(stripQuantity(lines[i]), "")]

\* array.filter(n => n !== name)
RECURSIVE without(_, _)
without(list, name) ==
    IF list = <<>> THEN <<>>
    ELSE (IF Head(list) # name THEN <<Head(list)>> ELSE <<>>) \o without(Tail(list), name)

updateCustomization(fields) ==
    customization' = [f \in DOMAIN customization |->
                         IF f \in DOMAIN fields THEN fields[f] ELSE customization[f]]

\* The import box's onChange: a list is pasted into the empty box.
setImportText(text) ==
    /\ importText = <<>>
    /\ importText' = text
    /\ UNCHANGED <<customization, notCustom>>

handleBanCard(name) ==
    /\ IF ~includes(customization.bannedCards, name)
       THEN updateCustomization([bannedCards |-> Append(customization.bannedCards, name),
                                 edited |-> "handleBanCard"])
       ELSE UNCHANGED customization
    /\ UNCHANGED <<importText, notCustom>>

handleUnbanCard(cardName) ==
    /\ updateCustomization([bannedCards |-> without(customization.bannedCards, cardName),
                            edited |-> "handleUnbanCard"])
    /\ UNCHANGED <<importText, notCustom>>

handleImportList ==
    /\ trimPieces(importText) # <<>>
    /\ LET newCards == collectNewCards(customization.bannedCards, <<>>,
                                       cardLines(splitList(importText)))
       IN  IF newCards # <<>>
           THEN updateCustomization([bannedCards |-> customization.bannedCards \o newCards,
                                     edited |-> "handleImportList"])
           ELSE UNCHANGED customization
    /\ importText' = <<>>
    /\ UNCHANGED notCustom

handleClearAll ==
    /\ updateCustomization([bannedCards |-> <<>>, edited |-> "handleClearAll"])
    /\ UNCHANGED <<importText, notCustom>>

\* The mark ComboDisplay puts on a card instead of the Must Include button.
cardIsBanned(name) ==
    toLowerCase(name) \in {toLowerCase(customization.bannedCards[i]) :
                              i \in 1..Len(customization.bannedCards)}

\* The Must Include button of a missing combo card that is not excluded.
handleAddMustInclude(name) ==
    /\ ~cardIsBanned(name)
    /\ IF includes(customization.mustIncludeCards, name)
       THEN UNCHANGED customization
       ELSE updateCustomization([mustIncludeCards |->
                                    Append(customization.mustIncludeCards, name),
                                 edited |-> "handleAddMustInclude"])
    /\ UNCHANGED <<importText, notCustom>>

handleRemoveMustInclude(name) ==
    /\ includes(customization.mustIncludeCards, name)
    /\ updateCustomization([mustIncludeCards |->
                               without(customization.mustIncludeCards, name),
                            edited |-> "handleRemoveMustInclude"])
    /\ UNCHANGED <<importText, notCustom>>

CustomInit == PartnerInit

CustomNext ==
    \/ \E name \in ListNames : handleBanCard(name)
    \/ \E name \in ListNames : handleUnbanCard(name)
    \/ \E text \in ImportTexts : setImportText(text)
    \/ handleImportList
    \/ handleClearAll
    \/ \E name \in ListNames : handleAddMustInclude(name)
    \/ \E name \in ListNames : handleRemoveMustInclude(name)

SpecCustom == CustomInit /\ [][CustomNext]_vars

listNames(list) == {list[i] : i \in 1..Len(list)}

(***************************************************************************)
(* C26: after any sequence of ban, unban, import banned list, clear banned *)
(* list, add must-include and remove must-include, no name is in both      *)
(* bannedCards and mustIncludeCards.                                       *)
(***************************************************************************)
C26_BannedAndMustIncludeDisjoint ==
    listNames(customization.bannedCards) \cap listNames(customization.mustIncludeCards) = {}

noNameTwice(list) == \A i, j \in 1..Len(list) : list[i] = list[j] => i = j

\* list is the beginning of longer.
isPrefix(list, longer) ==
    Len(list) <= Len(longer) /\ SubSeq(longer, 1, Len(list)) = list

\* What a step does to the banned list when it is an import or an unban.
bannedListStep ==
    /\ handleImportList =>
              LET before == customization.bannedCards
                  after == customization'.bannedCards
                  added == SubSeq(after, Len(before) + 1, Len(after))
              IN  /\ isPrefix(before, after)
                  /\ noNameTwice(added)
                  /\ listNames(added) =
                        (listNames(importedNames(importText)) \ {""}) \ listNames(before)
    /\ \A cardName \in ListNames :
          handleUnbanCard(cardName) =>
              /\ cardName \notin listNames(customization'.bannedCards)
              /\ listNames(customization'.bannedCards) =
                    listNames(customization.bannedCards) \ {cardName}

(***************************************************************************)
(* C28: after any sequence of ban, unban, import list and clear all from   *)
(* an empty list, bannedCards holds no name twice; an import adds exactly  *)
(* the names of the text that are not banned yet, each once; an unban      *)
(* removes the name completely.                                            *)
(***************************************************************************)
C28_BannedListIsASet ==
    [](noNameTwice(customization.bannedCards)) /\ [][bannedListStep]_vars

\* A list with one banned name was extended by an import to three names.
C28_Witness ==
    /\ customization.edited = "handleImportList"
    /\ Len(customization.bannedCards) = 3
    /\ customization.bannedCards[1] = "Demonic Consultation"

(***************************************************************************)
(* The land sliders of DeckCustomizer.                                     *)
(***************************************************************************)
DeckFormats == {40, 60, 99}

\* The land settings of the formats.
DECK_FORMAT_CONFIGS(format) ==
    CASE format = 40 -> [defaultLands |-> 17, landRange |-> <<14, 20>>]
      [] format = 60 -> [defaultLands |-> 24, landRange |-> <<20, 28>>]
      [] format = 99 -> [defaultLands |-> 37, landRange |-> <<32, 42>>]

mathMin(a, b) == IF a < b THEN a ELSE b

mathMax(a, b) == IF a > b THEN a ELSE b

\* The values the range input of a Slider can report: its min and max are
\* widened to hold the value shown.
sliderValues(value, min, max) == mathMin(value, min)..mathMax(value, max)

\* Math.min(15, Math.floor(formatConfig.defaultLands * 0.4))
defaultNonBasic(defaultLands) == mathMin(15, (defaultLands * 4) \div 10)

\* handleLandCountChange without its Math.min.
unclampedNonBasic(nonBasicLandCount, newLandCount) == nonBasicLandCount

\* Math.min(customization.nonBasicLandCount, newLandCount)
newNonBasic(nonBasicLandCount, newLandCount) == mathMin(nonBasicLandCount, newLandCount)

handleFormatChange(format) ==
    /\ LET formatConfig == DECK_FORMAT_CONFIGS(format)
       IN  updateCustomization([deckFormat |-> format,
                                landCount |-> formatConfig.defaultLands,
                                nonBasicLandCount |-> defaultNonBasic(formatConfig.defaultLands),
                                edited |-> "handleFormatChange"])
    /\ UNCHANGED <<importText, notCustom>>

\* The Total Lands slider reports newLandCount.
handleLandCountChange(newLandCount) ==
    /\ LET landRange == DECK_FORMAT_CONFIGS(customization.deckFormat).landRange
       IN  newLandCount \in sliderValues(customization.landCount, landRange[1], landRange[2])
    /\ updateCustomization([landCount |-> newLandCount,
                            nonBasicLandCount |-> newNonBasic(customization.nonBasicLandCount,
                                                              newLandCount),
                            edited |-> "handleLandCountChange"])
    /\ UNCHANGED <<importText, notCustom>>

\* The Non-Basic Lands slider reports value.
nonBasicLandCountChange(value) ==
    /\ value \in sliderValues(customization.nonBasicLandCount, 0, customization.landCount)
    /\ updateCustomization([nonBasicLandCount |-> value, edited |-> "nonBasicLandCountChange"])
    /\ UNCHANGED <<importText, notCustom>>

LandCounts == 0..50

LandsInit == PartnerInit

LandsNext ==
    \/ \E format \in DeckFormats : handleFormatChange(format)
    \/ \E newLandCount \in LandCounts : handleLandCountChange(newLandCount)
    \/ \E value \in LandCounts : nonBasicLandCountChange(value)

SpecLands == LandsInit /\ [][LandsNext]_vars

nonBasicWithinLands ==
    /\ 0 <= customization.nonBasicLandCount
    /\ customization.nonBasicLandCount <= customization.landCount

\* A change of the total land count is taken as it is and the non-basic
\* count is lowered to it where it was higher.
landCountStep ==
    \A newLandCount \in LandCounts :
        handleLandCountChange(newLandCount) =>
            /\ customization'.landCount = newLandCount
            /\ customization'.nonBasicLandCount =
                  IF customization.nonBasicLandCount > newLandCount THEN newLandCount
                  ELSE customization.nonBasicLandCount

(***************************************************************************)
(* C27: after any sequence of format changes, changes of the total land    *)
(* count and changes of the non-basic land count (within the slider's      *)
(* range 0..landCount), starting with nonBasicLandCount <= landCount,      *)
(* always 0 <= nonBasicLandCount <= landCount; a total below the non-basic *)
(* count is not rejected, the non-basic count is clamped to it.            *)
(***************************************************************************)
C27_NonBasicWithinLands == []nonBasicWithinLands /\ [][landCountStep]_vars

\* The total was lowered to the bottom of the range and the non-basic count,
\* which was higher, came down with it.
C27_Witness ==
    /\ customization.edited = "handleLandCountChange"
    /\ customization.deckFormat = 99
    /\ customization.landCount = 32
    /\ customization.nonBasicLandCount = 32

(***************************************************************************)
(* bulkImport as an upsert, and the quantities of the stored cards.        *)
(***************************************************************************)
UpsertCalls ==
    {[fn |-> "bulkImport", stored |-> t, cards |-> l] :
        t \in StoredTables, l \in ListsOver(BatchCards, MaxImport)}

UpsertInit ==
    /\ libCall \in UpsertCalls
    /\ libResult = null
    /\ TaggerIdle /\ tagRepoUrl = ""
    /\ CollectionIdle
    /\ CardsIdle /\ cardRequests = 0
    /\ CustomIdle
    /\ ClientIdle

UpsertNext == bulkImportCall

SpecUpsert == UpsertInit /\ [][UpsertNext]_vars

\* The sum of the quantities the batch has for the name.
RECURSIVE batchQuantity(_, _)
batchQuantity(list, name) ==
    IF list = <<>> THEN 0
    ELSE (IF Head(list).name = name THEN Head(list).quantity ELSE 0)
         + batchQuantity(Tail(list), name)

batchNames(list) == {list[i].name : i \in 1..Len(list)}

(***************************************************************************)
(* C29: after bulkImport, for every name of the batch the stored quantity  *)
(* is the quantity stored before (0 for an absent card) plus the sum of    *)
(* the batch quantities for the name; metadata missing in the batch keeps  *)
(* its stored value; cards not in the batch are unchanged; and added +     *)
(* updated is the number of batch entries.                                 *)
(***************************************************************************)
C29_AccumulatingUpsert ==
    (libCall.fn = "bulkImport" /\ libResult # null) =>
        LET before == libCall.stored
            list == libCall.cards
            after == libResult[1].cards
        IN  /\ DOMAIN after = DOMAIN before \cup batchNames(list)
            /\ \A name \in batchNames(list) :
                  /\ after[name].quantity =
                        (IF name \in DOMAIN before THEN before[name].quantity ELSE 0)
                        + batchQuantity(list, name)
                  /\ (name \in DOMAIN before
                         /\ \A i \in 1..Len(list) :
                               list[i].name = name => list[i].typeLine = null) =>
                        after[name].typeLine = before[name].typeLine
            /\ \A name \in DOMAIN before \ batchNames(list) : after[name] = before[name]
            /\ libResult[1].added + libResult[1].updated = Len(list)

\* A stored card with metadata was imported again twice, without metadata,
\* beside a card that was not in the batch.
C29_Witness ==
    /\ libCall.fn = "bulkImport" /\ libResult # null
    /\ DOMAIN libCall.stored = BatchNames
    /\ libCall.stored[<<"Sol Ring">>].typeLine = <<"Artifact">>
    /\ Len(libCall.cards) = 2
    /\ \A i \in 1..2 : libCall.cards[i].name = <<"Sol Ring">> /\ libCall.cards[i].typeLine = null
    /\ libResult[1].updated = 2

\* What a step does to the table when it is a call of updateQuantity.
updateQuantityStep ==
    \A name \in CollectionNames, quantity \in Quantities :
        updateQuantity(name, quantity) =>
            IF quantity <= 0
            THEN DOMAIN dbCards' = DOMAIN dbCards \ {name}
            ELSE /\ DOMAIN dbCards' = DOMAIN dbCards
                 /\ name \in DOMAIN dbCards => dbCards'[name].quantity = quantity

(***************************************************************************)
(* C30: after any sequence of bulkImport (with quantities >= 1),           *)
(* updateQuantity, removeCard and clearCollection every stored card has a  *)
(* quantity >= 1; updateQuantity with a quantity <= 0 deletes the card,    *)
(* with a quantity > 0 it sets the quantity of a stored card and creates   *)
(* no card.                                                                *)
(***************************************************************************)
C30_QuantitiesPositive ==
    [](\A name \in DOMAIN dbCards : dbCards[name].quantity >= 1) /\ [][updateQuantityStep]_vars

\* updateQuantity was called for a card that is not stored, beside a stored
\* card whose quantity had been set.
C30_Witness ==
    /\ dbResult.op = "updateQuantity"
    /\ DOMAIN dbCards = {<<"Sol Ring">>}
    /\ dbCards[<<"Sol Ring">>].quantity = 2

=============================================================================
